---- MODULE Spec2Model ----
(***************************************************************************)
(* A model of serde-garnish: the encoder (src/src/serializer.rs) writing   *)
(* structured values into the runtime value store and the decoder          *)
(* (src/src/deserializer.rs) reading them back.                            *)
(*                                                                         *)
(* The runtime value store is an external collaborator; it is modelled     *)
(* here as a heap `data` (a sequence of tagged cells, a handle being an    *)
(* index) with the operations the codec calls.  Strings are sequences of   *)
(* one-character strings so that they can be iterated and split.           *)
(***************************************************************************)
EXTENDS Integers, Sequences, FiniteSets, TLC

VARIABLES
    optional_behavior,      \* GarnishDataSerializer.optional_behavior
    unit_struct_behavior,   \* GarnishDataSerializer.unit_struct_behavior
    variant_name_behavior,  \* GarnishDataSerializer.variant_name_behavior
    data,                   \* the store: Seq of cells
    struct_sym,             \* GarnishDataSerializer.struct_sym (0 = None)
    pending_key,            \* GarnishDataSerializer.pending_key (0 = None)
    configured,             \* history: has any setter been called
    input,                  \* the typed value or decode request of this session
    data_addr,              \* handle returned by the encoder / built by a setup
    enc_err,                \* error of the encode ("none" when it succeeded)
    value_stack,            \* GarnishDataDeserializer.value_stack
    result,                 \* outcome of the last decode / resolution
    gather,                 \* locals of a running gather_concat_items, with its history
    pc                      \* position of the session

vars == <<optional_behavior, unit_struct_behavior, variant_name_behavior, data,
          struct_sym, pending_key, configured, input, data_addr, enc_err,
          value_stack, result, gather, pc>>

(***************************************************************************)
(* Bounds of the model.                                                    *)
(***************************************************************************)
MaxLen == 2          \* longest sequence / map drawn as an encoder input
MaxLeaves == 3       \* most leaves of a List / Concatenation built for decoding
MaxIndex == 3        \* largest Range bound drawn for a Slice
MaxCatLeaves == 4    \* most leaves of a Concatenation whose flattening is stepped
MaxCalls == 3        \* most serialize_key / serialize_value calls made on one map

(***************************************************************************)
(* Small helpers.                                                          *)
(***************************************************************************)
NoAddr == 0

Reverse(s) == [i \in 1..Len(s) |-> s[Len(s) + 1 - i]]

Last(s) == s[Len(s)]

Front(s) == SubSeq(s, 1, Len(s) - 1)

Pow2(b) == IF b = 8 THEN 256 ELSE IF b = 16 THEN 65536 ELSE 0

(***************************************************************************)
(* String literals of the source, as character sequences.                  *)
(***************************************************************************)
StrNone == <<"n", "o", "n", "e">>

StrSome == <<"s", "o", "m", "e">>

data_name_meta_key == <<"_", "_", "d", "a", "t", "a", "_", "n", "a", "m", "e", "_", "_">>

Separator == <<":", ":">>

(***************************************************************************)
(* Numeric conversion contract (src/src/traits.rs).  A Number holds an     *)
(* integer; From<w> embeds, Into<w> narrows to the width w.                *)
(***************************************************************************)
Bits(w) == CASE w \in {"i8", "u8"} -> 8
             [] w \in {"i16", "u16"} -> 16
             [] OTHER -> 32

IsSigned(w) == w \in {"i8", "i16", "i32"}

NumberFrom(w, x) == x

NumberIntoBad(w, n) == IF Bits(w) = 32 THEN n + 1 ELSE (n + 1) % Pow2(Bits(w))

NumberInto(w, n) ==
    IF Bits(w) = 32 THEN n
    ELSE IF IsSigned(w)
         THEN ((n + Pow2(Bits(w)) \div 2) % Pow2(Bits(w))) - Pow2(Bits(w)) \div 2
         ELSE n % Pow2(Bits(w))

(***************************************************************************)
(* Runtime value store (external; spec section 6).  Every add appends a    *)
(* cell and returns its handle.  A store state `s` also carries the stack  *)
(* of Lists under construction (start/append/end) and the serializer's     *)
(* mutable fields, so that it can be threaded through the encoder.         *)
(***************************************************************************)
Ok(s, a) == [s |-> s, addr |-> a, err |-> "none"]

Fail(s, msg) == [s |-> s, addr |-> NoAddr, err |-> msg]

AddCell(s, cell) ==
    Ok([s EXCEPT !.data = Append(s.data, cell)], Len(s.data) + 1)

add_unit(s) == AddCell(s, [t |-> "Unit"])

add_true(s) == AddCell(s, [t |-> "True"])

add_false(s) == AddCell(s, [t |-> "False"])

add_number(s, n) == AddCell(s, [t |-> "Number", n |-> n])

add_char(s, c) == AddCell(s, [t |-> "Char", c |-> c])

add_char_list(s, cs) == AddCell(s, [t |-> "CharList", cs |-> cs])

add_byte_list(s, bs) == AddCell(s, [t |-> "ByteList", bs |-> bs])

parse_add_symbol(s, cs) == AddCell(s, [t |-> "Symbol", cs |-> cs])

add_pair(s, l, r) == AddCell(s, [t |-> "Pair", l |-> l, r |-> r])

add_concatenation(s, l, r) == AddCell(s, [t |-> "Concatenation", l |-> l, r |-> r])

add_range(s, l, r) == AddCell(s, [t |-> "Range", l |-> l, r |-> r])

add_slice(s, l, r) == AddCell(s, [t |-> "Slice", l |-> l, r |-> r])

\* coerce-to-symbol: the symbol named by the characters the handle shows
add_symbol_from(s, a) ==
    IF s.data[a].t \in {"CharList", "Symbol"}
    THEN AddCell(s, [t |-> "Symbol", cs |-> s.data[a].cs])
    ELSE Fail(s, "store: cannot make a symbol of this value")

start_list(s, len) ==
    Ok([s EXCEPT !.lists = Append(s.lists, [items |-> <<>>, assoc |-> <<>>])], NoAddr)

add_to_list(s, a, is_associative) ==
    IF s.lists = <<>>
    THEN Fail(s, "store: not currently creating a list")
    ELSE Ok([s EXCEPT !.lists[Len(s.lists)] =
                 [items |-> Append(@.items, a),
                  assoc |-> Append(@.assoc, is_associative)]], NoAddr)

end_list(s) ==
    IF s.lists = <<>>
    THEN Fail(s, "store: not currently creating a list")
    ELSE AddCell([s EXCEPT !.lists = Front(s.lists)],
                 [t |-> "List", items |-> Last(s.lists).items,
                  assoc |-> Last(s.lists).assoc])

start_char_list(s) == Ok([s EXCEPT !.chars = <<>>], NoAddr)

add_to_char_list(s, c) == Ok([s EXCEPT !.chars = Append(@, c)], NoAddr)

end_char_list(s) == AddCell([s EXCEPT !.chars = <<>>], [t |-> "CharList", cs |-> s.chars])

start_byte_list(s) == Ok([s EXCEPT !.bytes = <<>>], NoAddr)

add_to_byte_list(s, b) == Ok([s EXCEPT !.bytes = Append(@, b)], NoAddr)

end_byte_list(s) == AddCell([s EXCEPT !.bytes = <<>>], [t |-> "ByteList", bs |-> s.bytes])

(***************************************************************************)
(* Result plumbing: Then(r, F) is Rust's `let x = r?; F(x)`.               *)
(***************************************************************************)
Then(r, F(_)) == IF r.err # "none" THEN r ELSE F(r)

(***************************************************************************)
(* GarnishSerializationOptions (src/src/options.rs).                       *)
(***************************************************************************)
OptionalBehavior == {"Pair", "UnitValue"}

StructBehavior == {"ExcludeTyping", "IncludeTyping"}

VariantNameBehavior == {"Short", "Full", "Index"}

GarnishSerializationOptions_new ==
    [optional_behavior |-> "UnitValue",
     struct_typing_behavior |-> "ExcludeTyping",
     variant_name_behavior |-> "Full"]

(***************************************************************************)
(* The encoder: GarnishDataSerializer (src/src/serializer.rs).             *)
(* A serializer state s is [data, lists, chars, bytes, struct_sym,         *)
(* pending_key]; the three behaviours are fixed during one encode and are  *)
(* read from the session's variables.                                      *)
(***************************************************************************)
GarnishDataSerializer_new ==
    [optional_behavior |-> "Pair",
     unit_struct_behavior |-> "ExcludeTyping",
     variant_name_behavior |-> "Full",
     struct_sym |-> NoAddr,
     pending_key |-> NoAddr]

SerState == [data |-> data, lists |-> <<>>, chars |-> <<>>, bytes |-> <<>>,
             struct_sym |-> struct_sym, pending_key |-> pending_key]

add_convertible_number(w, v, s) == add_number(s, NumberFrom(w, v))

serialize_bool(v, s) == IF v THEN add_true(s) ELSE add_false(s)

serialize_char(v, s) == add_char(s, v)

RECURSIVE SerChars(_, _, _)
SerChars(v, i, s) ==
    IF i > Len(v) THEN Ok(s, NoAddr)
    ELSE Then(add_to_char_list(s, v[i]), LAMBDA r: SerChars(v, i + 1, r.s))

serialize_str(v, s) ==
    Then(start_char_list(s), LAMBDA r0:
    Then(SerChars(v, 1, r0.s), LAMBDA r1:
    end_char_list(r1.s)))

RECURSIVE SerBytes(_, _, _)
SerBytes(v, i, s) ==
    IF i > Len(v) THEN Ok(s, NoAddr)
    ELSE Then(add_to_byte_list(s, v[i]), LAMBDA r: SerBytes(v, i + 1, r.s))

serialize_bytes(v, s) ==
    Then(start_byte_list(s), LAMBDA r0:
    Then(SerBytes(v, 1, r0.s), LAMBDA r1:
    end_byte_list(r1.s)))

serialize_none_bare(s) == add_unit(s)

serialize_none(s) ==
    Then(add_unit(s), LAMBDA unit:
    IF optional_behavior = "Pair"
    THEN Then(parse_add_symbol(unit.s, StrNone), LAMBDA sym:
         add_pair(sym.s, sym.addr, unit.addr))
    ELSE Ok(unit.s, unit.addr))

serialize_unit(s) == add_unit(s)

serialize_unit_struct(name, s) ==
    IF unit_struct_behavior = "ExcludeTyping"
    THEN add_unit(s)
    ELSE Then(serialize_str(name, s), LAMBDA name_addr:
         Then(parse_add_symbol(name_addr.s, data_name_meta_key), LAMBDA sym:
         Then(add_pair(sym.s, sym.addr, name_addr.addr), LAMBDA pair:
         Then(start_list(pair.s, 1), LAMBDA r0:
         Then(add_to_list(r0.s, pair.addr, TRUE), LAMBDA r1:
         end_list(r1.s))))))

serialize_unit_variant_full(name, variant_index, variant, s) ==
    parse_add_symbol(s, name \o Separator \o variant)

serialize_unit_variant(name, variant_index, variant, s) ==
    CASE variant_name_behavior = "Short" -> parse_add_symbol(s, variant)
      [] variant_name_behavior = "Full" ->
            parse_add_symbol(s, name \o Separator \o variant)
      [] variant_name_behavior = "Index" -> add_number(s, NumberFrom("u32", variant_index))

serialize_seq(len, s) == start_list(s, len)

serialize_tuple(len, s) == serialize_seq(len, s)

serialize_map(len, s) == serialize_seq(len, s)

serialize_tuple_struct(name, len, s) ==
    Then(parse_add_symbol(s, name), LAMBDA sym:
    serialize_seq(len, [sym.s EXCEPT !.struct_sym = sym.addr]))

serialize_struct(name, len, s) ==
    Then(parse_add_symbol(s, name), LAMBDA sym:
    serialize_seq(len, [sym.s EXCEPT !.struct_sym = sym.addr]))

serialize_tuple_variant(name, variant_index, variant, len, s) ==
    Then(serialize_unit_variant(name, variant_index, variant, s), LAMBDA sym:
    serialize_seq(len, [sym.s EXCEPT !.struct_sym = sym.addr]))

serialize_struct_variant(name, variant_index, variant, len, s) ==
    Then(serialize_unit_variant(name, variant_index, variant, s), LAMBDA sym:
    serialize_seq(len, [sym.s EXCEPT !.struct_sym = sym.addr]))

end_struct_like(s) ==
    CASE unit_struct_behavior = "IncludeTyping" /\ s.struct_sym # NoAddr ->
            Then(parse_add_symbol(s, data_name_meta_key), LAMBDA sym:
            Then(add_pair(sym.s, sym.addr, s.struct_sym), LAMBDA pair:
            Then(add_to_list(pair.s, pair.addr, TRUE), LAMBDA r:
            end_list(r.s))))
      [] unit_struct_behavior = "IncludeTyping" /\ s.struct_sym = NoAddr ->
            Fail(s, "Set to include names, but no name was set when serializing tuple struct.")
      [] OTHER -> end_list(s)

SerializeSeq_end(s) == end_list(s)

SerializeMap_end(s) == end_list(s)

(***************************************************************************)
(* Serialize(v, s) is `v.serialize(&mut serializer)`: the value's serde    *)
(* Serialize implementation calls the serializer method of its shape.      *)
(***************************************************************************)
RECURSIVE Serialize(_, _)
RECURSIVE SerElements(_, _, _)
RECURSIVE SerEntries(_, _, _)
RECURSIVE SerFields(_, _, _)

serialize_some(value, s) ==
    Then(Serialize(value, s), LAMBDA val:
    IF optional_behavior = "Pair"
    THEN Then(parse_add_symbol(val.s, StrSome), LAMBDA sym:
         add_pair(sym.s, sym.addr, val.addr))
    ELSE Ok(val.s, val.addr))

serialize_newtype_struct(name, value, s) == Serialize(value, s)

serialize_newtype_variant_flat(name, variant_index, variant, value, s) ==
    Then(start_list(s, 2), LAMBDA r0:
    Then(serialize_unit_variant(name, variant_index, variant, r0.s), LAMBDA sym:
    Then(add_to_list(sym.s, sym.addr, variant_name_behavior # "Index"), LAMBDA r1:
    Then(Serialize(value, r1.s), LAMBDA val:
    Then(add_to_list(val.s, val.addr, FALSE), LAMBDA r2:
    end_list(r2.s))))))

serialize_newtype_variant(name, variant_index, variant, value, s) ==
    Then(start_list(s, 1), LAMBDA r0:
    Then(serialize_unit_variant(name, variant_index, variant, r0.s), LAMBDA sym:
    Then(Serialize(value, sym.s), LAMBDA val:
    Then(add_pair(val.s, sym.addr, val.addr), LAMBDA pair:
    Then(add_to_list(pair.s, pair.addr, variant_name_behavior # "Index"), LAMBDA r1:
    end_list(r1.s))))))

\* SerializeSeq / SerializeTuple / SerializeTupleStruct / SerializeTupleVariant
serialize_element(value, s) ==
    Then(Serialize(value, s), LAMBDA addr:
    add_to_list(addr.s, addr.addr, FALSE))

serialize_key(key, s) ==
    Then(Serialize(key, s), LAMBDA v:
    Then(add_symbol_from(v.s, v.addr), LAMBDA sym:
    Ok([sym.s EXCEPT !.pending_key = sym.addr], NoAddr)))

serialize_value(value, s) ==
    IF s.pending_key = NoAddr
    THEN Fail(s, "No key when serializing value for map.")
    ELSE LET key == s.pending_key IN
         Then(Serialize(value, s), LAMBDA val:
         Then(add_pair(val.s, key, val.addr), LAMBDA pair:
         add_to_list(pair.s, pair.addr, TRUE)))

\* SerializeStruct / SerializeStructVariant
serialize_field(key, value, s) ==
    Then(parse_add_symbol(s, key), LAMBDA k:
    Then(Serialize(value, k.s), LAMBDA v:
    Then(add_pair(v.s, k.addr, v.addr), LAMBDA p:
    add_to_list(p.s, p.addr, TRUE))))

SerElements(xs, i, s) ==
    IF i > Len(xs) THEN Ok(s, NoAddr)
    ELSE Then(serialize_element(xs[i], s), LAMBDA r: SerElements(xs, i + 1, r.s))

SerEntries(es, i, s) ==
    IF i > Len(es) THEN Ok(s, NoAddr)
    ELSE Then(serialize_key(es[i].key, s), LAMBDA r0:
         Then(serialize_value(es[i].val, r0.s), LAMBDA r1:
         SerEntries(es, i + 1, r1.s)))

SerFields(fs, i, s) ==
    IF i > Len(fs) THEN Ok(s, NoAddr)
    ELSE Then(serialize_field(fs[i].fname, fs[i].val, s), LAMBDA r:
         SerFields(fs, i + 1, r.s))

Serialize(v, s) ==
    CASE v.k = "bool" -> serialize_bool(v.b, s)
      [] v.k = "int" -> add_convertible_number(v.w, v.n, s)
      [] v.k = "char" -> serialize_char(v.c, s)
      [] v.k = "str" -> serialize_str(v.cs, s)
      [] v.k = "bytes" -> serialize_bytes(v.bs, s)
      [] v.k = "none" -> serialize_none(s)
      [] v.k = "some" -> serialize_some(v.x, s)
      [] v.k = "unit" -> serialize_unit(s)
      [] v.k = "unit_struct" -> serialize_unit_struct(v.name, s)
      [] v.k = "newtype_struct" -> serialize_newtype_struct(v.name, v.x, s)
      [] v.k = "seq" ->
            Then(serialize_seq(Len(v.xs), s), LAMBDA r0:
            Then(SerElements(v.xs, 1, r0.s), LAMBDA r1:
            SerializeSeq_end(r1.s)))
      [] v.k = "tuple" ->
            Then(serialize_tuple(Len(v.xs), s), LAMBDA r0:
            Then(SerElements(v.xs, 1, r0.s), LAMBDA r1:
            SerializeSeq_end(r1.s)))
      [] v.k = "tuple_struct" ->
            Then(serialize_tuple_struct(v.name, Len(v.xs), s), LAMBDA r0:
            Then(SerElements(v.xs, 1, r0.s), LAMBDA r1:
            end_struct_like(r1.s)))
      [] v.k = "map" ->
            Then(serialize_map(Len(v.es), s), LAMBDA r0:
            Then(SerEntries(v.es, 1, r0.s), LAMBDA r1:
            SerializeMap_end(r1.s)))
      [] v.k = "struct" ->
            Then(serialize_struct(v.name, Len(v.fs), s), LAMBDA r0:
            Then(SerFields(v.fs, 1, r0.s), LAMBDA r1:
            end_struct_like(r1.s)))
      [] v.k = "unit_variant" -> serialize_unit_variant(v.name, v.idx, v.variant, s)
      [] v.k = "newtype_variant" ->
            serialize_newtype_variant(v.name, v.idx, v.variant, v.x, s)
      [] v.k = "tuple_variant" ->
            Then(serialize_tuple_variant(v.name, v.idx, v.variant, Len(v.xs), s), LAMBDA r0:
            Then(SerElements(v.xs, 1, r0.s), LAMBDA r1:
            end_struct_like(r1.s)))
      [] v.k = "struct_variant" ->
            Then(serialize_struct_variant(v.name, v.idx, v.variant, Len(v.fs), s), LAMBDA r0:
            Then(SerFields(v.fs, 1, r0.s), LAMBDA r1:
            end_struct_like(r1.s)))

(***************************************************************************)
(* Store accessors used by the decoder (external; spec section 6).         *)
(* A decoder state d is [data, value_stack].                               *)
(***************************************************************************)
USIZE_MAX == 65535   \* usize::MAX, scaled to 16 bits

Min(a, b) == IF a < b THEN a ELSE b

get_data_type(dat, a) == dat[a].t

get_list_len(dat, a) == Len(dat[a].items)

get_list_item(dat, a, i) == dat[a].items[i + 1]

RECURSIVE ToDigits(_)
ToDigits(n) ==
    LET digit == <<"0", "1", "2", "3", "4", "5", "6", "7", "8", "9">>
    IN IF n < 0 THEN <<"-">> \o ToDigits(0 - n)
       ELSE IF n < 10 THEN <<digit[n + 1]>>
       ELSE ToDigits(n \div 10) \o <<digit[(n % 10) + 1]>>

SkipTake(s, start, count) == SubSeq(s, start + 1, Min(Len(s), start + count))

\* the characters a value shows when it is realized as a CharList
RECURSIVE Realize(_, _)
Realize(dat, a) ==
    LET c == dat[a] IN
    CASE c.t \in {"CharList", "Symbol"} -> c.cs
      [] c.t = "Char" -> <<c.c>>
      [] c.t = "Number" -> ToDigits(c.n)
      [] c.t = "Concatenation" -> Realize(dat, c.l) \o Realize(dat, c.r)
      [] c.t = "Slice" ->
            LET src == Realize(dat, c.l)
                lo == dat[dat[c.r].l].n
                hi == dat[dat[c.r].r].n
            IN IF hi < lo THEN <<>> ELSE SkipTake(src, lo, hi - lo + 1)
      [] OTHER -> <<>>

\* realize-from(handle): allocates a new CharList
add_char_list_from(d, a) ==
    [d |-> [d EXCEPT !.data = Append(d.data, [t |-> "CharList", cs |-> Realize(d.data, a)])],
     addr |-> Len(d.data) + 1]

(***************************************************************************)
(* The decoder: GarnishDataDeserializer (src/src/deserializer.rs).         *)
(* A decode returns [d, st, val, msg]: st is "ok", "err" (an Err result)   *)
(* or "panic" (the call does not return).                                  *)
(***************************************************************************)
NoVal == [k |-> "novalue"]

DOk(d, v) == [d |-> d, st |-> "ok", val |-> v, msg |-> "none"]

DErr(d, m) == [d |-> d, st |-> "err", val |-> NoVal, msg |-> m]

DPanic(d, m) == [d |-> d, st |-> "panic", val |-> NoVal, msg |-> m]

DThen(r, F(_)) == IF r.st # "ok" THEN r ELSE F(r)

\* `?` on a failed accessor call: the failure is returned as it is
Propagate(r) == [d |-> r.d, st |-> r.st, val |-> NoVal, msg |-> r.msg]

\* overflow_checks is the build profile the crate is compiled under (on in the
\* dev and test profiles): it decides what an overflowing usize addition does
GarnishDataDeserializer_new_for_value(dat, value_addr) ==
    [data |-> dat, value_stack |-> <<value_addr>>, overflow_checks |-> TRUE]

WithOverflowChecks(d, checks) == [d EXCEPT !.overflow_checks = checks]

\* value(): the focal handle and its tag
HasValue(d) == d.value_stack # <<>>

FocusAddr(d) == Last(d.value_stack)

FocusType(d) == get_data_type(d.data, FocusAddr(d))

NoValueErr(d) == DErr(d, "No value to deserialize.")

RECURSIVE ReadChars(_, _, _, _)
ReadChars(dat, a, i, acc) ==
    IF i < Len(dat[a].cs) THEN ReadChars(dat, a, i + 1, Append(acc, dat[a].cs[i + 1]))
    ELSE acc

RECURSIVE ReadBytes(_, _, _, _)
ReadBytes(dat, a, i, acc) ==
    IF i < Len(dat[a].bs) THEN ReadBytes(dat, a, i + 1, Append(acc, dat[a].bs[i + 1]))
    ELSE acc

create_symbol_string(d, a) ==
    LET r == add_char_list_from(d, a)
    IN DOk(r.d, ReadChars(r.d.data, r.addr, 0, <<>>))

deserialize_bool_coercing(d) ==
    IF ~HasValue(d) THEN NoValueErr(d)
    ELSE DOk(d, [k |-> "bool", b |-> FocusType(d) \notin {"False", "Unit"}])

deserialize_bool(d) ==
    IF ~HasValue(d) THEN NoValueErr(d)
    ELSE CASE FocusType(d) = "True" -> DOk(d, [k |-> "bool", b |-> TRUE])
           [] FocusType(d) = "False" -> DOk(d, [k |-> "bool", b |-> FALSE])
           [] OTHER -> DErr(d, "Expected True or False")

deserialize_int(w, d) ==
    IF ~HasValue(d) THEN NoValueErr(d)
    ELSE IF FocusType(d) = "Number"
         THEN DOk(d, [k |-> "int", w |-> w, n |-> NumberInto(w, d.data[FocusAddr(d)].n)])
         ELSE DErr(d, "Expected Number")

deserialize_char(d) ==
    IF ~HasValue(d) THEN NoValueErr(d)
    ELSE IF FocusType(d) = "Char"
         THEN DOk(d, [k |-> "char", c |-> d.data[FocusAddr(d)].c])
         ELSE DErr(d, "Expected Char")

deserialize_string(d) ==
    IF ~HasValue(d) THEN NoValueErr(d)
    ELSE CASE FocusType(d) = "CharList" ->
                DOk(d, [k |-> "str", cs |-> ReadChars(d.data, FocusAddr(d), 0, <<>>)])
           [] FocusType(d) \in {"Symbol", "Concatenation", "Slice"} ->
                LET r == add_char_list_from(d, FocusAddr(d))
                IN DThen(create_symbol_string(r.d, r.addr), LAMBDA s:
                   DOk(s.d, [k |-> "str", cs |-> s.val]))
           [] OTHER -> DErr(d, "Expected CharList, Symbol, Concatenation or Slice.")

deserialize_identifier(d) == deserialize_string(d)

deserialize_byte_buf(d) ==
    IF ~HasValue(d) THEN NoValueErr(d)
    ELSE IF FocusType(d) = "ByteList"
         THEN DOk(d, [k |-> "bytes", bs |-> ReadBytes(d.data, FocusAddr(d), 0, <<>>)])
         ELSE DErr(d, "Expected ByteList")

deserialize_unit(d) ==
    IF ~HasValue(d) THEN NoValueErr(d)
    ELSE IF FocusType(d) = "Unit" THEN DOk(d, [k |-> "unit"])
         ELSE DErr(d, "Expected Unit")

deserialize_unit_struct(name, d) ==
    DThen(deserialize_unit(d), LAMBDA r: DOk(r.d, [k |-> "unit_struct", name |-> name]))

deserialize_ignored_any(d) == DPanic(d, "not implemented")

(***************************************************************************)
(* List / Concatenation / Slice resolution.                                *)
(***************************************************************************)
RECURSIVE GatherListLoop(_, _, _, _)
GatherListLoop(dat, list_ref, i, items) ==
    IF i < get_list_len(dat, list_ref)
    THEN GatherListLoop(dat, list_ref, i + 1, Append(items, get_list_item(dat, list_ref, i)))
    ELSE items

gather_list_items(list_ref, dat) == GatherListLoop(dat, list_ref, 0, <<>>)

RECURSIVE GatherConcatLoop(_, _, _)
GatherConcatLoop(dat, cat_stack, items) ==
    IF cat_stack = <<>> THEN items
    ELSE LET current == Last(cat_stack)
             rest == Front(cat_stack)
         IN IF get_data_type(dat, current) = "Concatenation"
            THEN GatherConcatLoop(dat, Append(Append(rest, dat[current].r), dat[current].l), items)
            ELSE GatherConcatLoop(dat, rest, Append(items, current))

RECURSIVE GatherConcatLoopSwapped(_, _, _)
GatherConcatLoopSwapped(dat, cat_stack, items) ==
    IF cat_stack = <<>> THEN items
    ELSE LET current == Last(cat_stack)
             rest == Front(cat_stack)
         IN IF get_data_type(dat, current) = "Concatenation"
            THEN GatherConcatLoopSwapped(dat, Append(Append(rest, dat[current].l), dat[current].r), items)
            ELSE GatherConcatLoopSwapped(dat, rest, Append(items, current))

gather_concat_items_swapped(concat_ref, dat) == GatherConcatLoopSwapped(dat, <<concat_ref>>, <<>>)

gather_concat_items(concat_ref, dat) == GatherConcatLoop(dat, <<concat_ref>>, <<>>)

\* the Slice arm of new_with_max: the items the slice selects, or an error
SliceItemsExclusive(d, a) ==
    LET list_ref == d.data[a].l
        range_ref == d.data[a].r
        list_type == get_data_type(d.data, list_ref)
        start == d.data[d.data[range_ref].l].n
        end == d.data[d.data[range_ref].r].n
        src == IF list_type = "List" THEN gather_list_items(list_ref, d.data)
               ELSE gather_concat_items(list_ref, d.data)
    IN IF list_type \notin {"List", "Concatenation"}
       THEN DErr(d, "Slice cannot be converted to sequence.")
       ELSE IF end < start THEN DOk(d, <<>>)
       ELSE DOk(d, SkipTake(src, start, end - start))

\* the Slice arm with the emptiness test placed before the source match
SliceItemsRangeFirst(d, a) ==
    LET list_ref == d.data[a].l
        range_ref == d.data[a].r
        list_type == get_data_type(d.data, list_ref)
        start == d.data[d.data[range_ref].l].n
        end == d.data[d.data[range_ref].r].n
        src == IF list_type = "List" THEN gather_list_items(list_ref, d.data)
               ELSE gather_concat_items(list_ref, d.data)
    IN IF end < start THEN DOk(d, <<>>)
       ELSE IF list_type \notin {"List", "Concatenation"}
       THEN DErr(d, "Slice cannot be converted to sequence.")
       ELSE DOk(d, SkipTake(src, start, end - start + 1))

\* `end - start + 1` in usize: past usize::MAX the addition panics when the
\* build has overflow checks and wraps around otherwise
SliceItems(d, a) ==
    LET list_ref == d.data[a].l
        range_ref == d.data[a].r
        list_type == get_data_type(d.data, list_ref)
        start == d.data[d.data[range_ref].l].n
        end == d.data[d.data[range_ref].r].n
        src == IF list_type = "List" THEN gather_list_items(list_ref, d.data)
               ELSE gather_concat_items(list_ref, d.data)
    IN IF list_type \notin {"List", "Concatenation"}
       THEN DErr(d, "Slice cannot be converted to sequence.")
       ELSE IF end < start THEN DOk(d, <<>>)
       ELSE IF end - start + 1 > USIZE_MAX
       THEN IF d.overflow_checks THEN DPanic(d, "attempt to add with overflow")
            ELSE DOk(d, SkipTake(src, start, (end - start + 1) % (USIZE_MAX + 1)))
       ELSE DOk(d, SkipTake(src, start, end - start + 1))

\* the items before the max check and the reversal
ResolveItemsNoScalar(d) ==
    CASE FocusType(d) = "List" -> DOk(d, gather_list_items(FocusAddr(d), d.data))
      [] FocusType(d) = "Concatenation" -> DOk(d, gather_concat_items(FocusAddr(d), d.data))
      [] FocusType(d) = "Slice" -> SliceItems(d, FocusAddr(d))
      [] OTHER -> DOk(d, <<>>)

ResolveItems(d) ==
    CASE FocusType(d) = "List" -> DOk(d, gather_list_items(FocusAddr(d), d.data))
      [] FocusType(d) = "Concatenation" -> DOk(d, gather_concat_items(FocusAddr(d), d.data))
      [] FocusType(d) = "Slice" -> SliceItems(d, FocusAddr(d))
      [] OTHER -> DOk(d, <<FocusAddr(d)>>)

ListAccessor_new_with_max_unreversed(d, max) ==
    IF ~HasValue(d) THEN NoValueErr(d)
    ELSE DThen(ResolveItems(d), LAMBDA r:
         IF Len(r.val) > max
         THEN DErr(r.d, "Cannot deserialize list like value. Expected maximum items exceeded")
         ELSE DOk(r.d, r.val))

ListAccessor_new_with_max_unchecked(d, max) ==
    IF ~HasValue(d) THEN NoValueErr(d)
    ELSE DThen(ResolveItems(d), LAMBDA r: DOk(r.d, Reverse(r.val)))

ListAccessor_new_with_max(d, max) ==
    IF ~HasValue(d) THEN NoValueErr(d)
    ELSE DThen(ResolveItems(d), LAMBDA r:
         IF Len(r.val) > max
         THEN DErr(r.d, "Cannot deserialize list like value. Expected maximum items exceeded")
         ELSE DOk(r.d, Reverse(r.val)))

ListAccessor_new(d) == ListAccessor_new_with_max(d, USIZE_MAX)

(***************************************************************************)
(* Deserialize(ty, d) is `T::deserialize(&mut deserializer)` for the       *)
(* requested shape ty: the shape's serde Deserialize implementation calls  *)
(* the deserializer method of its kind with its visitor.                   *)
(***************************************************************************)
RECURSIVE Deserialize(_, _)
RECURSIVE VisitSeqVec(_, _, _, _)
RECURSIVE VisitSeqTuple(_, _, _, _, _)
RECURSIVE VisitMapHash(_, _, _, _)
RECURSIVE VisitMapStruct(_, _, _, _)

Pop(s) == IF s = <<>> THEN <<>> ELSE Front(s)

Push(d, a) == [d EXCEPT !.value_stack = Append(@, a)]

PopFocus(d) == [d EXCEPT !.value_stack = Pop(@)]

\* next_element_seed taking its item from the front of the reversed list
next_element_seed_from_front(ty, items, d) ==
    IF items # <<>>
    THEN LET r == Deserialize(ty, Push(d, Head(items)))
         IN [d |-> IF r.st = "panic" THEN r.d ELSE PopFocus(r.d),
             st |-> r.st, val |-> r.val, msg |-> r.msg,
             some |-> TRUE, items |-> Tail(items)]
    ELSE [d |-> d, st |-> "ok", val |-> NoVal, msg |-> "none",
          some |-> FALSE, items |-> items]

\* SeqAccess::next_element_seed; `items` is the accessor's reversed item list
next_element_seed(ty, items, d) ==
    IF items # <<>>
    THEN LET r == Deserialize(ty, Push(d, Last(items)))
         IN [d |-> IF r.st = "panic" THEN r.d ELSE PopFocus(r.d),
             st |-> r.st, val |-> r.val, msg |-> r.msg,
             some |-> TRUE, items |-> Front(items)]
    ELSE [d |-> d, st |-> "ok", val |-> NoVal, msg |-> "none",
          some |-> FALSE, items |-> items]

next_key_seed_lenient(ty, items, d) ==
    IF items # <<>> /\ get_data_type(d.data, Last(items)) = "Pair"
    THEN LET item == Last(items)
             r == Deserialize(ty, Push(d, d.data[item].l))
         IN [d |-> IF r.st = "panic" THEN r.d
                   ELSE Push(PopFocus(r.d), d.data[item].r),
             st |-> r.st, val |-> r.val, msg |-> r.msg,
             some |-> TRUE, items |-> Front(items)]
    ELSE [d |-> d, st |-> "ok", val |-> NoVal, msg |-> "none",
          some |-> FALSE, items |-> items]

\* MapAccess::next_key_seed
next_key_seed(ty, items, d) ==
    IF items # <<>>
    THEN LET item == Last(items) IN
         IF get_data_type(d.data, item) # "Pair"
         THEN [d |-> d, st |-> "err", val |-> NoVal, msg |-> "store: not a pair",
               some |-> TRUE, items |-> Front(items)]
         ELSE LET r == Deserialize(ty, Push(d, d.data[item].l))
              IN [d |-> IF r.st = "panic" THEN r.d
                        ELSE Push(PopFocus(r.d), d.data[item].r),
                  st |-> r.st, val |-> r.val, msg |-> r.msg,
                  some |-> TRUE, items |-> Front(items)]
    ELSE [d |-> d, st |-> "ok", val |-> NoVal, msg |-> "none",
          some |-> FALSE, items |-> items]

\* MapAccess::next_value_seed
next_value_seed(ty, d) ==
    LET r == Deserialize(ty, d)
    IN [r EXCEPT !.d = IF r.st = "panic" THEN r.d ELSE PopFocus(r.d)]

\* serde: the visitor of Vec<T>
VisitSeqVec(ty, items, d, acc) ==
    LET r == next_element_seed(ty, items, d)
    IN IF r.st # "ok" THEN Propagate(r)
       ELSE IF ~r.some THEN DOk(r.d, acc)
       ELSE VisitSeqVec(ty, r.items, r.d, Append(acc, r.val))

\* serde: the visitor of a tuple or tuple struct of arity Len(tys)
VisitSeqTuple(tys, i, items, d, acc) ==
    IF i > Len(tys) THEN DOk(d, acc)
    ELSE LET r == next_element_seed(tys[i], items, d)
         IN IF r.st # "ok" THEN Propagate(r)
            ELSE IF ~r.some THEN DErr(r.d, "invalid length")
            ELSE VisitSeqTuple(tys, i + 1, r.items, r.d, Append(acc, r.val))

\* serde: the visitor of a map with String keys
VisitMapHash(ty, items, d, acc) ==
    LET r == next_key_seed([k |-> "string"], items, d)
    IN IF r.st # "ok" THEN Propagate(r)
       ELSE IF ~r.some THEN DOk(r.d, acc)
       ELSE DThen(next_value_seed(ty, r.d), LAMBDA v:
            VisitMapHash(ty, r.items, v.d,
                {e \in acc : e.key # r.val} \cup {[key |-> r.val, val |-> v.val]}))

FieldIndex(fields, name) ==
    IF \E i \in 1..Len(fields) : fields[i].fname = name
    THEN CHOOSE i \in 1..Len(fields) : fields[i].fname = name
    ELSE 0

RECURSIVE BuildStruct(_, _, _, _)
BuildStruct(fields, got, i, acc) ==
    IF i > Len(fields) THEN [st |-> "ok", fs |-> acc]
    ELSE LET j == FieldIndex(got, fields[i].fname)
         IN IF j # 0
            THEN BuildStruct(fields, got, i + 1, Append(acc, got[j]))
            ELSE IF fields[i].ty.k = "option"
            THEN BuildStruct(fields, got, i + 1,
                     Append(acc, [fname |-> fields[i].fname, val |-> [k |-> "none"]]))
            ELSE [st |-> "err", fs |-> acc]

\* serde derive: the visitor of a struct with named fields (unknown keys ignored)
VisitMapStruct(fields, items, d, got) ==
    LET r == next_key_seed([k |-> "identifier"], items, d)
    IN IF r.st # "ok" THEN Propagate(r)
       ELSE IF ~r.some
       THEN LET b == BuildStruct(fields, got, 1, <<>>)
            IN IF b.st = "ok" THEN DOk(r.d, b.fs) ELSE DErr(r.d, "missing field")
       ELSE LET i == FieldIndex(fields, r.val.cs)
            IN IF i = 0
               THEN DThen(next_value_seed([k |-> "ignored_any"], r.d), LAMBDA v:
                    VisitMapStruct(fields, r.items, v.d, got))
               ELSE IF FieldIndex(got, r.val.cs) # 0
               THEN DErr(r.d, "duplicate field")
               ELSE DThen(next_value_seed(fields[i].ty, r.d), LAMBDA v:
                    VisitMapStruct(fields, r.items, v.d,
                        Append(got, [fname |-> r.val.cs, val |-> v.val])))

deserialize_option(ty, d) ==
    IF ~HasValue(d) THEN NoValueErr(d)
    ELSE IF FocusType(d) = "Unit" THEN DOk(d, [k |-> "none"])
         ELSE DThen(Deserialize(ty.of, d), LAMBDA r: DOk(r.d, [k |-> "some", x |-> r.val]))

deserialize_newtype_struct(ty, d) ==
    DThen(Deserialize(ty.of, d), LAMBDA r:
    DOk(r.d, [k |-> "newtype_struct", name |-> ty.name, x |-> r.val]))

deserialize_seq(ty, d) ==
    DThen(ListAccessor_new(d), LAMBDA acc:
    DThen(VisitSeqVec(ty.of, acc.val, acc.d, <<>>), LAMBDA r:
    DOk(r.d, [k |-> "seq", xs |-> r.val])))

deserialize_tuple(tys, d) ==
    DThen(ListAccessor_new_with_max(d, Len(tys)), LAMBDA acc:
    VisitSeqTuple(tys, 1, acc.val, acc.d, <<>>))

deserialize_tuple_struct(tys, d) ==
    DThen(ListAccessor_new_with_max(d, Len(tys)), LAMBDA acc:
    VisitSeqTuple(tys, 1, acc.val, acc.d, <<>>))

deserialize_map(ty, d) ==
    DThen(ListAccessor_new(d), LAMBDA acc:
    DThen(VisitMapHash(ty.of, acc.val, acc.d, {}), LAMBDA r:
    DOk(r.d, [k |-> "map", ms |-> r.val])))

RECURSIVE PositionalFields(_, _, _, _, _)
PositionalFields(fields, items, d, i, acc) ==
    IF i > Len(fields) \/ items = <<>> THEN DOk(d, acc)
    ELSE IF get_data_type(d.data, Last(items)) # "Pair" THEN DErr(d, "store: not a pair")
    ELSE DThen(Deserialize(fields[i].ty, Push(d, d.data[Last(items)].r)), LAMBDA r:
         PositionalFields(fields, Front(items), PopFocus(r.d), i + 1,
             Append(acc, [fname |-> fields[i].fname, val |-> r.val])))

deserialize_struct_positional(fields, d) ==
    DThen(ListAccessor_new(d), LAMBDA acc:
    PositionalFields(fields, acc.val, acc.d, 1, <<>>))

deserialize_struct(fields, d) ==
    DThen(ListAccessor_new(d), LAMBDA acc:
    VisitMapStruct(fields, acc.val, acc.d, <<>>))

\* str::split("::")
RECURSIVE SplitFrom(_, _, _, _)
SplitFrom(cs, i, cur, parts) ==
    IF i > Len(cs) THEN Append(parts, cur)
    ELSE IF i < Len(cs) /\ cs[i] = ":" /\ cs[i + 1] = ":"
    THEN SplitFrom(cs, i + 2, <<>>, Append(parts, cur))
    ELSE SplitFrom(cs, i + 1, Append(cur, cs[i]), parts)

\* str::splitn(2, "::"): everything after the first separator is one segment
RECURSIVE SplitOnceFrom(_, _, _)
SplitOnceFrom(cs, i, cur) ==
    IF i > Len(cs) THEN <<cur>>
    ELSE IF i < Len(cs) /\ cs[i] = ":" /\ cs[i + 1] = ":"
    THEN <<cur, SubSeq(cs, i + 2, Len(cs))>>
    ELSE SplitOnceFrom(cs, i + 1, Append(cur, cs[i]))

SplitOnce(cs) == SplitOnceFrom(cs, 1, <<>>)

SplitLenient(cs) ==
    LET parts == SplitFrom(cs, 1, <<>>, <<>>)
    IN IF Len(parts) < 2 THEN <<<<>>>> \o parts ELSE parts

Split(cs) == SplitFrom(cs, 1, <<>>, <<>>)

VariantIndex(variants, name) ==
    IF \E i \in 1..Len(variants) : variants[i].vname = name
    THEN CHOOSE i \in 1..Len(variants) : variants[i].vname = name
    ELSE 0

variant_seed_unfocused(variants, d) ==
    IF ~HasValue(d) THEN NoValueErr(d)
    ELSE LET t == FocusType(d)
             a == FocusAddr(d)
         IN IF t \notin {"List", "Symbol"}
            THEN DErr(d, "Expected List or Symbol for variant")
            ELSE IF t = "List" /\ get_list_len(d.data, a) < 2
            THEN DErr(d, "store: list index out of range")
            ELSE LET sym_a == IF t = "List" THEN get_list_item(d.data, a, 0) ELSE a
                 IN DThen(create_symbol_string(d, sym_a), LAMBDA sym:
                    LET parts == Split(sym.val)
                    IN IF Len(parts) < 2
                       THEN DErr(sym.d, "Could not get enum value from symbols string")
                       ELSE IF VariantIndex(variants, parts[2]) = 0
                       THEN DErr(sym.d, "unknown variant")
                       ELSE DOk(sym.d, VariantIndex(variants, parts[2])))

\* EnumAccess::variant_seed; val is the index of the identified variant
variant_seed(variants, d) ==
    IF ~HasValue(d) THEN NoValueErr(d)
    ELSE LET t == FocusType(d)
             a == FocusAddr(d)
         IN IF t \notin {"List", "Symbol"}
            THEN DErr(d, "Expected List or Symbol for variant")
            ELSE IF t = "List" /\ get_list_len(d.data, a) < 2
            THEN DErr(d, "store: list index out of range")
            ELSE LET sym_a == IF t = "List" THEN get_list_item(d.data, a, 0) ELSE a
                     d1 == IF t = "List" THEN Push(d, get_list_item(d.data, a, 1)) ELSE d
                 IN DThen(create_symbol_string(d1, sym_a), LAMBDA sym:
                    LET parts == Split(sym.val)
                    IN IF Len(parts) < 2
                       THEN DErr(sym.d, "Could not get enum value from symbols string")
                       ELSE IF VariantIndex(variants, parts[2]) = 0
                       THEN DErr(sym.d, "unknown variant")
                       ELSE DOk(sym.d, VariantIndex(variants, parts[2])))

\* serde derive: the visitor of an enum, with VariantAccess for EnumAccessor
deserialize_enum(ty, d) ==
    DThen(variant_seed(ty.variants, d), LAMBDA r:
    LET i == r.val
        v == ty.variants[i]
        head == [name |-> ty.name, idx |-> i - 1, variant |-> v.vname]
    IN CASE v.vk = "unit" -> DOk(r.d, [k |-> "unit_variant"] @@ head)
         [] v.vk = "newtype" ->
               DThen(Deserialize(v.ty, r.d), LAMBDA p:
               DOk(p.d, [k |-> "newtype_variant", x |-> p.val] @@ head))
         [] v.vk = "tuple" ->
               DThen(deserialize_tuple(v.ty.tys, r.d), LAMBDA p:
               DOk(p.d, [k |-> "tuple_variant", xs |-> p.val] @@ head))
         [] v.vk = "struct" ->
               DThen(deserialize_struct(v.ty.fields, r.d), LAMBDA p:
               DOk(p.d, [k |-> "struct_variant", fs |-> p.val] @@ head)))

Deserialize(ty, d) ==
    CASE ty.k = "bool" -> deserialize_bool(d)
      [] ty.k = "int" -> deserialize_int(ty.w, d)
      [] ty.k = "char" -> deserialize_char(d)
      [] ty.k = "string" -> deserialize_string(d)
      [] ty.k = "identifier" -> deserialize_identifier(d)
      [] ty.k = "bytes" -> deserialize_byte_buf(d)
      [] ty.k = "unit" -> deserialize_unit(d)
      [] ty.k = "unit_struct" -> deserialize_unit_struct(ty.name, d)
      [] ty.k = "option" -> deserialize_option(ty, d)
      [] ty.k = "newtype_struct" -> deserialize_newtype_struct(ty, d)
      [] ty.k = "seq" -> deserialize_seq(ty, d)
      [] ty.k = "tuple" ->
            DThen(deserialize_tuple(ty.tys, d), LAMBDA r:
            DOk(r.d, [k |-> "tuple", xs |-> r.val]))
      [] ty.k = "tuple_struct" ->
            DThen(deserialize_tuple_struct(ty.tys, d), LAMBDA r:
            DOk(r.d, [k |-> "tuple_struct", name |-> ty.name, xs |-> r.val]))
      [] ty.k = "map" -> deserialize_map(ty, d)
      [] ty.k = "struct" ->
            DThen(deserialize_struct(ty.fields, d), LAMBDA r:
            DOk(r.d, [k |-> "struct", name |-> ty.name, fs |-> r.val]))
      [] ty.k = "enum" -> deserialize_enum(ty, d)
      [] ty.k = "ignored_any" -> deserialize_ignored_any(d)

(***************************************************************************)
(* Inputs of the encoder: typed values drawn from bounded sets.            *)
(***************************************************************************)
TBool == [k |-> "bool"]

TInt(w) == [k |-> "int", w |-> w]

TChar == [k |-> "char"]

TString == [k |-> "string"]

TBytes == [k |-> "bytes"]

TUnit == [k |-> "unit"]

TOption(ty) == [k |-> "option", of |-> ty]

TSeq(ty) == [k |-> "seq", of |-> ty]

TMap(ty) == [k |-> "map", of |-> ty]

TTuple(tys) == [k |-> "tuple", tys |-> tys]

TStruct(name, fields) == [k |-> "struct", name |-> name, fields |-> fields]

TTupleStruct(name, tys) == [k |-> "tuple_struct", name |-> name, tys |-> tys]

TUnitStruct(name) == [k |-> "unit_struct", name |-> name]

TNewtypeStruct(name, ty) == [k |-> "newtype_struct", name |-> name, of |-> ty]

Field(fname, ty) == [fname |-> fname, ty |-> ty]

IntSamples(w) ==
    CASE w = "i8" -> {-128, 127}
      [] w = "u8" -> {0, 255}
      [] w = "i16" -> {-32768, 100}
      [] w = "u16" -> {65535}
      [] OTHER -> {-70000, 100000}

MapKeys == {<<"o", "n", "e">>, <<"k">>}

SeqsUpTo(S, n) == UNION {[1..m -> S] : m \in 0..n}

Injective(f) == \A i, j \in DOMAIN f : i # j => f[i] # f[j]

RECURSIVE Products(_, _)
Products(sets, i) ==
    IF i > Len(sets) THEN {<<>>}
    ELSE {<<x>> \o rest : x \in sets[i], rest \in Products(sets, i + 1)}

RECURSIVE Vals(_)
Vals(ty) ==
    CASE ty.k = "bool" -> {[k |-> "bool", b |-> b] : b \in BOOLEAN}
      [] ty.k = "int" -> {[k |-> "int", w |-> ty.w, n |-> n] : n \in IntSamples(ty.w)}
      [] ty.k = "char" -> {[k |-> "char", c |-> c] : c \in {"a", ":"}}
      [] ty.k = "string" -> {[k |-> "str", cs |-> cs] : cs \in {<<>>, <<"a", "b">>}}
      [] ty.k = "bytes" -> {[k |-> "bytes", bs |-> bs] : bs \in {<<>>, <<1, 255>>}}
      [] ty.k = "unit" -> {[k |-> "unit"]}
      [] ty.k = "unit_struct" -> {[k |-> "unit_struct", name |-> ty.name]}
      [] ty.k = "option" ->
            {[k |-> "none"]} \cup {[k |-> "some", x |-> x] : x \in Vals(ty.of)}
      [] ty.k = "newtype_struct" ->
            {[k |-> "newtype_struct", name |-> ty.name, x |-> x] : x \in Vals(ty.of)}
      [] ty.k = "seq" -> {[k |-> "seq", xs |-> xs] : xs \in SeqsUpTo(Vals(ty.of), MaxLen)}
      [] ty.k = "tuple" ->
            {[k |-> "tuple", xs |-> xs] :
                xs \in Products([i \in 1..Len(ty.tys) |-> Vals(ty.tys[i])], 1)}
      [] ty.k = "tuple_struct" ->
            {[k |-> "tuple_struct", name |-> ty.name, xs |-> xs] :
                xs \in Products([i \in 1..Len(ty.tys) |-> Vals(ty.tys[i])], 1)}
      [] ty.k = "map" ->
            {[k |-> "map", es |-> [i \in 1..Len(ks) |-> [key |-> [k |-> "str", cs |-> ks[i]],
                                                        val |-> vs[i]]]] :
                <<ks, vs>> \in
                    {p \in SeqsUpTo(MapKeys, MaxLen) \X SeqsUpTo(Vals(ty.of), MaxLen) :
                        Len(p[1]) = Len(p[2]) /\ Injective(p[1])}}
      [] ty.k = "struct" ->
            {[k |-> "struct", name |-> ty.name,
              fs |-> [i \in 1..Len(xs) |-> [fname |-> ty.fields[i].fname, val |-> xs[i]]]] :
                xs \in Products([i \in 1..Len(ty.fields) |-> Vals(ty.fields[i].ty)], 1)}
      [] ty.k = "enum" ->
            UNION {LET v == ty.variants[i]
                       head == [name |-> ty.name, idx |-> i - 1, variant |-> v.vname]
                   IN CASE v.vk = "unit" -> {[k |-> "unit_variant"] @@ head}
                        [] v.vk = "newtype" ->
                              {[k |-> "newtype_variant", x |-> x] @@ head : x \in Vals(v.ty)}
                        [] v.vk = "tuple" ->
                              {[k |-> "tuple_variant", xs |-> xs] @@ head :
                                  xs \in Products([j \in 1..Len(v.ty.tys) |->
                                                      Vals(v.ty.tys[j])], 1)}
                        [] v.vk = "struct" ->
                              {[k |-> "struct_variant",
                                fs |-> [j \in 1..Len(xs) |->
                                          [fname |-> v.ty.fields[j].fname, val |-> xs[j]]]]
                                  @@ head :
                                  xs \in Products([j \in 1..Len(v.ty.fields) |->
                                                      Vals(v.ty.fields[j].ty)], 1)} :
                   i \in 1..Len(ty.variants)}

\* the value as the decoder's caller sees it: a map is its set of entries
RECURSIVE Canon(_)
Canon(v) ==
    CASE v.k \in {"some", "newtype_struct", "newtype_variant"} -> [v EXCEPT !.x = Canon(@)]
      [] v.k \in {"seq", "tuple", "tuple_struct", "tuple_variant"} ->
            [v EXCEPT !.xs = [i \in 1..Len(@) |-> Canon(@[i])]]
      [] v.k \in {"struct", "struct_variant"} ->
            [v EXCEPT !.fs = [i \in 1..Len(@) |-> [@[i] EXCEPT !.val = Canon(@)]]]
      [] v.k = "map" ->
            [k |-> "map",
             ms |-> {[key |-> Canon(v.es[i].key), val |-> Canon(v.es[i].val)] :
                        i \in 1..Len(v.es)}]
      [] OTHER -> v

NameEnum == <<"E">>

NameTupleVariant == <<"T">>

NameUnitVariant == <<"U">>

NameNewtypeVariant == <<"N">>

NameStructVariant == <<"S">>

NameWrapVariant == <<"W">>

NameInner == <<"I", "n">>

NameOuter == <<"O", "u", "t">>

NameUnit == <<"U">>

NameRGB == <<"R", "G", "B">>

NameSecs == <<"S", "e", "c">>

TInner == TStruct(NameInner, <<Field(<<"a">>, TInt("u16")), Field(<<"b">>, TBool)>>)

TOuter == TStruct(NameOuter, <<Field(<<"i", "n">>, TInner), Field(<<"z">>, TInt("u16"))>>)

\* shapes without optionals, structs and enums
PlainShapes ==
    {TBool, TInt("i8"), TInt("u8"), TInt("i16"), TInt("u16"), TInt("i32"),
     TChar, TString, TBytes, TUnit,
     TSeq(TInt("i8")), TSeq(TString), TSeq(TUnit), TSeq(TSeq(TInt("u16"))),
     TTuple(<<TBool, TString>>), TTuple(<<TInt("i16"), TSeq(TInt("u16")), TChar>>),
     TTuple(<<TTuple(<<TInt("u16"), TBytes>>)>>),
     TMap(TInt("i8")), TMap(TSeq(TInt("u16"))), TMap(TMap(TInt("u16"))),
     TSeq(TMap(TInt("u16")))}

OptionShapes ==
    {TOption(TInt("i16")), TOption(TString), TOption(TUnit), TOption(TOption(TInt("u16"))),
     TOption(TUnitStruct(NameUnit)), TOption(TSeq(TInt("u16"))), TOption(TMap(TBool)),
     TOption(TTuple(<<TBool, TInt("u16")>>)), TOption(TInner)}

StructShapes ==
    {TInner, TOuter, TStruct(NameSecs, <<Field(<<"s">>, TSeq(TInt("u16")))>>),
     TTupleStruct(NameRGB, <<TInt("u8"), TInt("u16")>>),
     TUnitStruct(NameUnit), TNewtypeStruct(NameSecs, TInt("u16")),
     TSeq(TInner)}

Variant(vname, vk, ty) == [vname |-> vname, vk |-> vk, ty |-> ty]

\* enum E { U, N(u16), T(i16, bool), S { a: u16, b: bool }, W(In) }
TEnum ==
    [k |-> "enum", name |-> NameEnum,
     variants |-> <<Variant(NameUnitVariant, "unit", TUnit),
                    Variant(NameNewtypeVariant, "newtype", TInt("u16")),
                    Variant(NameTupleVariant, "tuple", TTuple(<<TInt("i16"), TBool>>)),
                    Variant(NameStructVariant, "struct", TInner),
                    Variant(NameWrapVariant, "tuple", TTuple(<<TInner>>))>>]

EnumShapes == {TEnum}

EncShapes == PlainShapes \cup OptionShapes \cup StructShapes \cup EnumShapes

Inputs == UNION {{[ty |-> ty, val |-> v] : v \in Vals(ty)} : ty \in EncShapes}

(***************************************************************************)
(* The session: construct, configure, encode or build a store, decode.     *)
(***************************************************************************)
NoInput == [ty |-> NoVal, val |-> NoVal]

NoResult == [st |-> "none", val |-> NoVal, msg |-> "none"]

NoGather == [cat_stack |-> <<>>, items |-> <<>>, pushed |-> <<>>, popped |-> <<>>]

Init ==
    /\ optional_behavior = GarnishDataSerializer_new.optional_behavior
    /\ unit_struct_behavior = GarnishDataSerializer_new.unit_struct_behavior
    /\ variant_name_behavior = GarnishDataSerializer_new.variant_name_behavior
    /\ struct_sym = GarnishDataSerializer_new.struct_sym
    /\ pending_key = GarnishDataSerializer_new.pending_key
    /\ data = <<>>
    /\ configured = FALSE
    /\ input = NoInput
    /\ data_addr = NoAddr
    /\ enc_err = "none"
    /\ value_stack = <<>>
    /\ result = NoResult
    /\ gather = NoGather
    /\ pc = "new"

set_optional_behavior(behavior) ==
    /\ pc = "new"
    /\ optional_behavior' = behavior
    /\ configured' = TRUE
    /\ UNCHANGED <<gather, unit_struct_behavior, variant_name_behavior, data, struct_sym,
                   pending_key, input, data_addr, enc_err, value_stack, result, pc>>

set_unit_struct_behavior(behavior) ==
    /\ pc = "new"
    /\ unit_struct_behavior' = behavior
    /\ configured' = TRUE
    /\ UNCHANGED <<gather, optional_behavior, variant_name_behavior, data, struct_sym,
                   pending_key, input, data_addr, enc_err, value_stack, result, pc>>

set_variant_name_behavior(behavior) ==
    /\ pc = "new"
    /\ variant_name_behavior' = behavior
    /\ configured' = TRUE
    /\ UNCHANGED <<gather, optional_behavior, unit_struct_behavior, data, struct_sym,
                   pending_key, input, data_addr, enc_err, value_stack, result, pc>>

\* value.serialize(&mut serializer)
Encode(inp) ==
    /\ pc = "new"
    /\ LET r == Serialize(inp.val, SerState)
       IN /\ data' = r.s.data
          /\ struct_sym' = r.s.struct_sym
          /\ pending_key' = r.s.pending_key
          /\ data_addr' = r.addr
          /\ enc_err' = r.err
    /\ input' = inp
    /\ pc' = "encoded"
    /\ UNCHANGED <<gather, optional_behavior, unit_struct_behavior, variant_name_behavior,
                   configured, value_stack, result>>

\* T::deserialize(&mut GarnishDataDeserializer::new_for_value(data, addr))
Decode ==
    /\ pc = "encoded"
    /\ enc_err = "none"
    /\ LET r == Deserialize(input.ty, GarnishDataDeserializer_new_for_value(data, data_addr))
       IN /\ data' = r.d.data
          /\ value_stack' = r.d.value_stack
          /\ result' = [st |-> r.st, val |-> r.val, msg |-> r.msg]
    /\ pc' = "decoded"
    /\ UNCHANGED <<gather, optional_behavior, unit_struct_behavior, variant_name_behavior,
                   struct_sym, pending_key, configured, input, data_addr, enc_err>>

(***************************************************************************)
(* Stores built by hand for decoding, as the tests of deserializer.rs do:  *)
(* leaves, a List of them, a Concatenation tree over them, a Range, a      *)
(* Slice of each, and a tuple-variant List around the chosen root.         *)
(***************************************************************************)
RECURSIVE TreesOver(_, _)
TreesOver(i, j) ==
    IF i = j THEN {[leaf |-> i]}
    ELSE UNION {{[l |-> a, r |-> b] : a \in TreesOver(i, m), b \in TreesOver(m + 1, j)} :
                    m \in i..(j - 1)}

IsLeaf(tree) == DOMAIN tree = {"leaf"}

TElem == TInt("i16")

TEnumOfTuple(arity) ==
    [k |-> "enum", name |-> NameEnum,
     variants |-> <<[vname |-> NameUnitVariant, vk |-> "unit", ty |-> TUnit],
                    [vname |-> NameTupleVariant, vk |-> "tuple",
                     ty |-> TTuple([i \in 1..arity |-> TElem])]>>]

RECURSIVE AddLeaves(_, _, _, _, _)
AddLeaves(s, i, n, listleaf, acc) ==
    IF i > n THEN [s |-> s, leaves |-> acc]
    ELSE IF i = listleaf
    THEN LET r == Serialize([k |-> "seq", xs |-> <<[k |-> "int", w |-> "i16", n |-> 1],
                                                   [k |-> "int", w |-> "i16", n |-> 2]>>], s)
         IN AddLeaves(r.s, i + 1, n, listleaf, Append(acc, r.addr))
    ELSE LET r == add_number(s, 100 * i)
         IN AddLeaves(r.s, i + 1, n, listleaf, Append(acc, r.addr))

RECURSIVE AddList(_, _, _)
AddList(s, items, i) ==
    IF i = 0 THEN AddList(start_list(s, Len(items)).s, items, 1)
    ELSE IF i > Len(items) THEN end_list(s)
    ELSE AddList(add_to_list(s, items[i], FALSE).s, items, i + 1)

RECURSIVE AddTree(_, _, _)
AddTree(s, tree, leaves) ==
    IF IsLeaf(tree) THEN Ok(s, leaves[tree.leaf])
    ELSE LET l == AddTree(s, tree.l, leaves)
             r == AddTree(l.s, tree.r, leaves)
         IN add_concatenation(r.s, l.addr, r.addr)

Forms == {"list", "concat", "slice_list", "slice_concat", "scalar"}

Wraps == {"seq", "tuple", "tuple_struct", "tuple_variant"}

Build(n, tree, listleaf, start, end, form) ==
    /\ pc = "new"
    /\ ~configured
    /\ form \in {"concat", "slice_concat"} => n >= 2
    /\ form = "scalar" => n = 1
    /\ \E s0 \in {AddLeaves(SerState, 1, n, listleaf, <<>>)} :
       \E lst \in {AddList(s0.s, s0.leaves, 0)} :
       \E cat \in {IF n >= 2 THEN AddTree(lst.s, tree, s0.leaves) ELSE Ok(lst.s, NoAddr)} :
       \E n1 \in {add_number(cat.s, start)} :
       \E n2 \in {add_number(n1.s, end)} :
       \E rng \in {add_range(n2.s, n1.addr, n2.addr)} :
       \E sl \in {add_slice(rng.s, lst.addr, rng.addr)} :
       \E sc \in {IF n >= 2 THEN add_slice(sl.s, cat.addr, rng.addr) ELSE Ok(sl.s, NoAddr)} :
       \E root \in {CASE form = "list" -> lst.addr
                     [] form = "concat" -> cat.addr
                     [] form = "slice_list" -> sl.addr
                     [] form = "slice_concat" -> sc.addr
                     [] form = "scalar" -> s0.leaves[1]} :
       \E sym \in {parse_add_symbol(sc.s, NameEnum \o Separator \o NameTupleVariant)} :
       \E enum \in {AddList(sym.s, <<sym.addr, root>>, 0)} :
          /\ data' = enum.s.data
          /\ data_addr' = root
          /\ input' = [ty |-> NoVal, val |-> NoVal, wrap |-> "none", max |-> 0,
                       n |-> n, tree |-> tree, listleaf |-> listleaf,
                       start |-> start, end |-> end, form |-> form,
                       leaves |-> s0.leaves, list |-> lst.addr, cat |-> cat.addr,
                       slice_list |-> sl.addr, slice_cat |-> sc.addr,
                       enum |-> enum.addr, delivered |-> <<>>, nones |-> 0]
    /\ pc' = "built"
    /\ UNCHANGED <<gather, optional_behavior, unit_struct_behavior, variant_name_behavior,
                   struct_sym, pending_key, configured, enc_err, value_stack, result>>

\* ListAccessor::new_with_max on the built root
Resolve(max) ==
    /\ pc = "built"
    /\ LET r == ListAccessor_new_with_max(
                    GarnishDataDeserializer_new_for_value(data, data_addr), max)
       IN /\ data' = r.d.data
          /\ value_stack' = r.d.value_stack
          /\ result' = [st |-> r.st, val |-> r.val, msg |-> r.msg]
    /\ input' = [input EXCEPT !.max = max]
    /\ pc' = "resolved"
    /\ UNCHANGED <<gather, optional_behavior, unit_struct_behavior, variant_name_behavior,
                   struct_sym, pending_key, configured, data_addr, enc_err>>

MaxNone == 2   \* calls made on an exhausted accessor

\* one next_element_seed call on the accessor made by Resolve, asking for an
\* i16; result.val holds the accessor's remaining items
NextElement ==
    /\ pc \in {"resolved", "iterating"}
    /\ result.st = "ok"
    /\ input.max = USIZE_MAX
    /\ input.nones < MaxNone
    /\ \E r \in {next_element_seed(TElem, result.val,
                      [data |-> data, value_stack |-> value_stack,
                       overflow_checks |-> TRUE])} :
          /\ data' = r.d.data
          /\ value_stack' = r.d.value_stack
          /\ result' = [result EXCEPT !.val = r.items]
          /\ input' = [input EXCEPT
                          !.delivered = Append(@, [some |-> r.some, st |-> r.st,
                                                   val |-> r.val, msg |-> r.msg]),
                          !.nones = IF r.some THEN @ ELSE @ + 1]
    /\ pc' = "iterating"
    /\ UNCHANGED <<gather, optional_behavior, unit_struct_behavior, variant_name_behavior,
                   struct_sym, pending_key, configured, data_addr, enc_err>>

RequestType(wrap, arity) ==
    CASE wrap = "seq" -> TSeq(TElem)
      [] wrap = "tuple" -> TTuple([i \in 1..arity |-> TElem])
      [] wrap = "tuple_struct" -> TTupleStruct(NameRGB, [i \in 1..arity |-> TElem])
      [] wrap = "tuple_variant" -> TEnumOfTuple(arity)

\* decode the built root as a sequence, tuple, tuple struct or tuple variant
DecodeAs(wrap, arity) ==
    /\ pc = "built"
    /\ LET ty == RequestType(wrap, arity)
           focus == IF wrap = "tuple_variant" THEN input.enum ELSE data_addr
           r == Deserialize(ty, GarnishDataDeserializer_new_for_value(data, focus))
       IN /\ data' = r.d.data
          /\ value_stack' = r.d.value_stack
          /\ result' = [st |-> r.st, val |-> r.val, msg |-> r.msg]
          /\ input' = [input EXCEPT !.ty = ty, !.wrap = wrap, !.max = arity]
    /\ pc' = "decoded"
    /\ UNCHANGED <<gather, optional_behavior, unit_struct_behavior, variant_name_behavior,
                   struct_sym, pending_key, configured, data_addr, enc_err>>

(***************************************************************************)
(* A store holding one value of every tag, and the enum discriminants and  *)
(* variant Lists the tests of deserializer.rs decode; any handle of it can *)
(* be made the focus and decoded as a primitive shape or as the enum.      *)
(***************************************************************************)
SampleCells ==
    <<[t |-> "Unit"],                                                    \* 1
      [t |-> "True"],                                                    \* 2
      [t |-> "False"],                                                   \* 3
      [t |-> "Number", n |-> 7],                                         \* 4
      [t |-> "Char", c |-> "a"],                                         \* 5
      [t |-> "CharList", cs |-> <<"a", "b">>],                           \* 6
      [t |-> "ByteList", bs |-> <<1, 255>>],                             \* 7
      [t |-> "Symbol", cs |-> NameEnum \o Separator \o NameUnitVariant], \* 8
      [t |-> "Symbol", cs |-> <<"X">> \o Separator \o NameUnitVariant],  \* 9
      [t |-> "Symbol", cs |-> NameUnitVariant],                          \* 10
      [t |-> "Symbol", cs |-> NameEnum \o Separator \o NameNewtypeVariant],  \* 11
      [t |-> "Symbol", cs |-> NameEnum \o Separator \o NameTupleVariant],    \* 12
      [t |-> "Symbol", cs |-> NameEnum \o Separator \o NameStructVariant],   \* 13
      [t |-> "Symbol", cs |-> <<"a">>],                                  \* 14
      [t |-> "Pair", l |-> 14, r |-> 4],                                 \* 15
      [t |-> "Symbol", cs |-> <<"b">>],                                  \* 16
      [t |-> "Pair", l |-> 16, r |-> 2],                                 \* 17
      [t |-> "List", items |-> <<15, 17>>, assoc |-> <<TRUE, TRUE>>],    \* 18
      [t |-> "List", items |-> <<4, 2>>, assoc |-> <<FALSE, FALSE>>],    \* 19
      [t |-> "List", items |-> <<4, 2, 3>>, assoc |-> <<FALSE, FALSE, FALSE>>],  \* 20
      [t |-> "Number", n |-> 0],                                         \* 21
      [t |-> "Range", l |-> 21, r |-> 21],                               \* 22
      [t |-> "Slice", l |-> 6, r |-> 22],                                \* 23
      [t |-> "Concatenation", l |-> 6, r |-> 8],                         \* 24
      [t |-> "List", items |-> <<11, 4>>, assoc |-> <<FALSE, FALSE>>],   \* 25
      [t |-> "List", items |-> <<12, 19>>, assoc |-> <<FALSE, FALSE>>],  \* 26
      [t |-> "List", items |-> <<12, 20>>, assoc |-> <<FALSE, FALSE>>],  \* 27
      [t |-> "List", items |-> <<13, 18>>, assoc |-> <<FALSE, FALSE>>],  \* 28
      [t |-> "List", items |-> <<8, 1>>, assoc |-> <<FALSE, FALSE>>],    \* 29
      [t |-> "List", items |-> <<10, 4>>, assoc |-> <<FALSE, FALSE>>],   \* 30
      [t |-> "List", items |-> <<11>>, assoc |-> <<FALSE>>],             \* 31
      [t |-> "Symbol", cs |-> <<"X">> \o Separator \o NameUnitVariant
                                \o Separator \o NameNewtypeVariant],      \* 32
      [t |-> "Symbol", cs |-> Separator \o NameUnitVariant],             \* 33
      [t |-> "Symbol", cs |-> NameEnum \o Separator \o NameUnitVariant
                                \o Separator],                           \* 34
      [t |-> "Symbol", cs |-> NameEnum \o Separator \o Separator
                                \o NameUnitVariant],                     \* 35
      [t |-> "Pair", l |-> 4, r |-> 2],                                  \* 36
      [t |-> "List", items |-> <<15, 36>>, assoc |-> <<TRUE, TRUE>>],    \* 37
      [t |-> "Pair", l |-> 16, r |-> 5],                                 \* 38
      [t |-> "List", items |-> <<15, 38>>, assoc |-> <<TRUE, TRUE>>],    \* 39
      [t |-> "List", items |-> <<32, 4>>, assoc |-> <<FALSE, FALSE>>]>>  \* 40

\* the store after adding cells[i], cells[i + 1], ... in turn: each add appends
\* one cell and returns the next handle (AddCell)
AddCells(s, cells, i) == [s EXCEPT !.data = @ \o SubSeq(cells, i, Len(cells))]

TIdentifier == [k |-> "identifier"]

PrimitiveShapes ==
    {TBool, TInt("i16"), TChar, TString, TIdentifier, TBytes, TUnit, TUnitStruct(NameUnit)}

\* sequences and tuples of one or two elements
ListLikeShapes ==
    UNION {{TSeq(ty), TTuple(<<ty>>), TTuple(<<ty, ty>>)} : ty \in {TInt("i16"), TChar}}

ProbeShapes ==
    PrimitiveShapes \cup {TEnum} \cup ListLikeShapes
        \cup {TMap(TInt("i16")), TOption(TInt("i16")), TSeq(TEnum)}

BuildSamples ==
    /\ pc = "new"
    /\ ~configured
    /\ data' = AddCells(SerState, SampleCells, 1).data
    /\ input' = [ty |-> NoVal, val |-> NoVal, focus |-> NoAddr]
    /\ pc' = "sampled"
    /\ UNCHANGED <<gather, optional_behavior, unit_struct_behavior, variant_name_behavior,
                   struct_sym, pending_key, configured, data_addr, enc_err,
                   value_stack, result>>

\* T::deserialize(&mut GarnishDataDeserializer::new_for_value(data, a))
Probe(ty, a) ==
    /\ pc = "sampled"
    /\ LET r == Deserialize(ty, GarnishDataDeserializer_new_for_value(data, a))
       IN /\ data' = r.d.data
          /\ value_stack' = r.d.value_stack
          /\ result' = [st |-> r.st, val |-> r.val, msg |-> r.msg]
    /\ input' = [input EXCEPT !.ty = ty, !.focus = a]
    /\ data_addr' = a
    /\ pc' = "probed"
    /\ UNCHANGED <<gather, optional_behavior, unit_struct_behavior, variant_name_behavior,
                   struct_sym, pending_key, configured, enc_err>>

ProbeAny == pc = "sampled" /\ \E ty \in ProbeShapes, a \in 1..Len(data) : Probe(ty, a)

(***************************************************************************)
(* Stores of key/value Pairs, as the struct and map tests of               *)
(* deserializer.rs build them: three entries in a chosen order, one of     *)
(* them possibly replaced by a Number, held in a List, a Concatenation, or *)
(* a Slice 1..3 of either behind a leading "zero" entry.                   *)
(***************************************************************************)
NameSome == <<"S", "o", "m", "e">>

KeyZero == <<"z", "e", "r", "o">>

KeyOne == <<"o", "n", "e">>

KeyTwo == <<"t", "w", "o">>

KeyThree == <<"t", "h", "r", "e", "e">>

\* struct SomeStruct { one, two, three }
TSome ==
    TStruct(NameSome, <<Field(KeyOne, TInt("i16")), Field(KeyTwo, TInt("i16")),
                        Field(KeyThree, TInt("i16"))>>)

\* the entries a store can hold; the fourth repeats the key of the first
Entries ==
    <<[key |-> KeyOne, val |-> 100], [key |-> KeyTwo, val |-> 200],
      [key |-> KeyThree, val |-> 300], [key |-> KeyOne, val |-> 900]>>

Orders == {o \in [1..3 -> 1..4] : Injective(o)}

EntryForms == {"list", "concat", "slice_list", "slice_concat"}

EntryShapes == {TSome, TMap(TInt("i16"))}

\* Symbol, Number and their Pair; at position `intruder` a Number instead
EntryCells(order, intruder) ==
    LET entry(i, e) == <<[t |-> "Symbol", cs |-> e.key], [t |-> "Number", n |-> e.val],
                         IF i = intruder THEN [t |-> "Number", n |-> 13]
                         ELSE [t |-> "Pair", l |-> 3 * i + 1, r |-> 3 * i + 2]>>
    IN entry(0, [key |-> KeyZero, val |-> 0])                              \* 1..3
       \o entry(1, Entries[order[1]])                                      \* 4..6
       \o entry(2, Entries[order[2]])                                      \* 7..9
       \o entry(3, Entries[order[3]])                                      \* 10..12
       \o <<[t |-> "List", items |-> <<6, 9, 12>>, assoc |-> <<TRUE, TRUE, TRUE>>],  \* 13
            [t |-> "List", items |-> <<3, 6, 9, 12>>,
             assoc |-> <<TRUE, TRUE, TRUE, TRUE>>],                        \* 14
            [t |-> "Concatenation", l |-> 6, r |-> 9],                     \* 15
            [t |-> "Concatenation", l |-> 15, r |-> 12],                   \* 16
            [t |-> "Concatenation", l |-> 3, r |-> 6],                     \* 17
            [t |-> "Concatenation", l |-> 17, r |-> 9],                    \* 18
            [t |-> "Concatenation", l |-> 18, r |-> 12],                   \* 19
            [t |-> "Number", n |-> 1],                                     \* 20
            [t |-> "Number", n |-> 3],                                     \* 21
            [t |-> "Range", l |-> 20, r |-> 21],                           \* 22
            [t |-> "Slice", l |-> 14, r |-> 22],                           \* 23
            [t |-> "Slice", l |-> 19, r |-> 22]>>                          \* 24

EntryRoot(form) ==
    CASE form = "list" -> 13
      [] form = "concat" -> 16
      [] form = "slice_list" -> 23
      [] form = "slice_concat" -> 24

BuildEntries(order, intruder, form) ==
    /\ pc = "new"
    /\ ~configured
    /\ data' = AddCells(SerState, EntryCells(order, intruder), 1).data
    /\ data_addr' = EntryRoot(form)
    /\ input' = [ty |-> NoVal, val |-> NoVal, order |-> order, intruder |-> intruder,
                 form |-> form]
    /\ pc' = "entries"
    /\ UNCHANGED <<gather, optional_behavior, unit_struct_behavior, variant_name_behavior,
                   struct_sym, pending_key, configured, enc_err, value_stack, result>>

\* decode the root as SomeStruct or as a HashMap<String, i16>
DecodeEntries(ty) ==
    /\ pc = "entries"
    /\ LET r == Deserialize(ty, GarnishDataDeserializer_new_for_value(data, data_addr))
       IN /\ data' = r.d.data
          /\ value_stack' = r.d.value_stack
          /\ result' = [st |-> r.st, val |-> r.val, msg |-> r.msg]
    /\ input' = [input EXCEPT !.ty = ty]
    /\ pc' = "entries_decoded"
    /\ UNCHANGED <<gather, optional_behavior, unit_struct_behavior, variant_name_behavior,
                   struct_sym, pending_key, configured, data_addr, enc_err>>

BuildEntriesAny ==
    /\ pc = "new"
    /\ \E order \in Orders, intruder \in 0..3, form \in EntryForms :
          BuildEntries(order, intruder, form)

DecodeEntriesAny == pc = "entries" /\ \E ty \in EntryShapes : DecodeEntries(ty)

(***************************************************************************)
(* Stores holding one Slice: its source is a List, a Concatenation or a    *)
(* value of another tag, its Range bounds are small or at the top of the   *)
(* index range.  The Slice is resolved, or decoded as a sequence, tuple,   *)
(* map or struct, under either build profile.                              *)
(***************************************************************************)
\* handles of SliceCells a Slice can take as its source
SliceSources == {1, 4, 6, 7, 8, 9, 10, 13, 14}

WideIndex == {0, 1, 2, 3, USIZE_MAX - 1, USIZE_MAX}

SliceShapes ==
    {TSeq(TInt("i16")), TTuple(<<TInt("i16"), TInt("i16"), TInt("i16")>>),
     TMap(TInt("i16")), TSome}

SliceCells(src, start, end) ==
    <<[t |-> "Number", n |-> 10],                          \* 1
      [t |-> "Number", n |-> 20],                          \* 2
      [t |-> "Number", n |-> 30],                          \* 3
      [t |-> "List", items |-> <<1, 2, 3>>, assoc |-> <<FALSE, FALSE, FALSE>>],  \* 4
      [t |-> "Concatenation", l |-> 1, r |-> 2],           \* 5
      [t |-> "Concatenation", l |-> 5, r |-> 3],           \* 6
      [t |-> "CharList", cs |-> <<"a", "b", "c">>],        \* 7
      [t |-> "Symbol", cs |-> KeyOne],                     \* 8
      [t |-> "Pair", l |-> 8, r |-> 1],                    \* 9
      [t |-> "Unit"],                                      \* 10
      [t |-> "Number", n |-> start],                       \* 11
      [t |-> "Number", n |-> end],                         \* 12
      [t |-> "Range", l |-> 11, r |-> 12],                 \* 13
      [t |-> "Slice", l |-> 4, r |-> 13],                  \* 14
      [t |-> "Slice", l |-> src, r |-> 13]>>               \* 15

SliceRoot == 15

BuildSlice(src, start, end) ==
    /\ pc = "new"
    /\ ~configured
    /\ data' = AddCells(SerState, SliceCells(src, start, end), 1).data
    /\ data_addr' = SliceRoot
    /\ input' = [ty |-> NoVal, val |-> NoVal, src |-> src, start |-> start, end |-> end,
                 overflow_checks |-> TRUE]
    /\ pc' = "slice"
    /\ UNCHANGED <<gather, optional_behavior, unit_struct_behavior, variant_name_behavior,
                   struct_sym, pending_key, configured, enc_err, value_stack, result>>

\* ListAccessor::new on the Slice
ResolveSlice(checks) ==
    /\ pc = "slice"
    /\ LET r == ListAccessor_new(WithOverflowChecks(
                    GarnishDataDeserializer_new_for_value(data, data_addr), checks))
       IN /\ data' = r.d.data
          /\ value_stack' = r.d.value_stack
          /\ result' = [st |-> r.st, val |-> r.val, msg |-> r.msg]
    /\ input' = [input EXCEPT !.overflow_checks = checks]
    /\ pc' = "slice_resolved"
    /\ UNCHANGED <<gather, optional_behavior, unit_struct_behavior, variant_name_behavior,
                   struct_sym, pending_key, configured, data_addr, enc_err>>

\* decode the Slice as a sequence, tuple, map or struct
DecodeSlice(ty, checks) ==
    /\ pc = "slice"
    /\ LET r == Deserialize(ty, WithOverflowChecks(
                    GarnishDataDeserializer_new_for_value(data, data_addr), checks))
       IN /\ data' = r.d.data
          /\ value_stack' = r.d.value_stack
          /\ result' = [st |-> r.st, val |-> r.val, msg |-> r.msg]
    /\ input' = [input EXCEPT !.ty = ty, !.overflow_checks = checks]
    /\ pc' = "slice_decoded"
    /\ UNCHANGED <<gather, optional_behavior, unit_struct_behavior, variant_name_behavior,
                   struct_sym, pending_key, configured, data_addr, enc_err>>

BuildSliceAny ==
    /\ pc = "new"
    /\ \E src \in SliceSources, start, end \in WideIndex : BuildSlice(src, start, end)

ResolveSliceAny == pc = "slice" /\ \E checks \in BOOLEAN : ResolveSlice(checks)

DecodeSliceAny ==
    /\ pc = "slice"
    /\ \E ty \in SliceShapes, checks \in BOOLEAN : DecodeSlice(ty, checks)

(***************************************************************************)
(* gather_concat_items, one loop iteration at a time, on a Concatenation   *)
(* tree of Numbers of any shape.  pushed and popped record every handle    *)
(* that has entered and left cat_stack.                                    *)
(***************************************************************************)
RECURSIVE AddNumbers(_, _, _, _)
AddNumbers(s, i, n, acc) ==
    IF i > n THEN [s |-> s, leaves |-> acc]
    ELSE LET r == add_number(s, 100 * i) IN AddNumbers(r.s, i + 1, n, Append(acc, r.addr))

BuildCat(n, tree) ==
    /\ pc = "new"
    /\ ~configured
    /\ \E s0 \in {AddNumbers(SerState, 1, n, <<>>)} :
       \E cat \in {AddTree(s0.s, tree, s0.leaves)} :
          /\ data' = cat.s.data
          /\ data_addr' = cat.addr
          /\ input' = [ty |-> NoVal, val |-> NoVal, n |-> n, tree |-> tree,
                       leaves |-> s0.leaves]
    /\ pc' = "cat"
    /\ UNCHANGED <<gather, optional_behavior, unit_struct_behavior, variant_name_behavior,
                   struct_sym, pending_key, configured, enc_err, value_stack, result>>

\* let mut items = vec![]; let mut cat_stack = vec![concat_ref];
GatherStart ==
    /\ pc = "cat"
    /\ gather' = [cat_stack |-> <<data_addr>>, items |-> <<>>,
                  pushed |-> <<data_addr>>, popped |-> <<>>]
    /\ pc' = "gathering"
    /\ UNCHANGED <<optional_behavior, unit_struct_behavior, variant_name_behavior, data,
                   struct_sym, pending_key, configured, input, data_addr, enc_err,
                   value_stack, result>>

\* one iteration that pushes only the left child
GatherStepLeftOnly ==
    /\ pc = "gathering"
    /\ gather.cat_stack # <<>>
    /\ LET current == Last(gather.cat_stack)
           rest == Front(gather.cat_stack)
       IN gather' =
             IF get_data_type(data, current) = "Concatenation"
             THEN [cat_stack |-> Append(rest, data[current].l),
                   items |-> gather.items,
                   pushed |-> Append(gather.pushed, data[current].l),
                   popped |-> Append(gather.popped, current)]
             ELSE [cat_stack |-> rest,
                   items |-> Append(gather.items, current),
                   pushed |-> gather.pushed,
                   popped |-> Append(gather.popped, current)]
    /\ UNCHANGED <<optional_behavior, unit_struct_behavior, variant_name_behavior, data,
                   struct_sym, pending_key, configured, input, data_addr, enc_err,
                   value_stack, result, pc>>

\* one iteration of `while !cat_stack.is_empty()`
GatherStep ==
    /\ pc = "gathering"
    /\ gather.cat_stack # <<>>
    /\ LET current == Last(gather.cat_stack)
           rest == Front(gather.cat_stack)
       IN gather' =
             IF get_data_type(data, current) = "Concatenation"
             THEN [cat_stack |-> Append(Append(rest, data[current].r), data[current].l),
                   items |-> gather.items,
                   pushed |-> Append(Append(gather.pushed, data[current].r), data[current].l),
                   popped |-> Append(gather.popped, current)]
             ELSE [cat_stack |-> rest,
                   items |-> Append(gather.items, current),
                   pushed |-> gather.pushed,
                   popped |-> Append(gather.popped, current)]
    /\ UNCHANGED <<optional_behavior, unit_struct_behavior, variant_name_behavior, data,
                   struct_sym, pending_key, configured, input, data_addr, enc_err,
                   value_stack, result, pc>>

\* the loop exits: Ok(items)
GatherReturn ==
    /\ pc = "gathering"
    /\ gather.cat_stack = <<>>
    /\ result' = [st |-> "ok", val |-> gather.items, msg |-> "none"]
    /\ pc' = "gathered"
    /\ UNCHANGED <<gather, optional_behavior, unit_struct_behavior, variant_name_behavior,
                   data, struct_sym, pending_key, configured, input, data_addr, enc_err,
                   value_stack>>

BuildCatAny ==
    /\ pc = "new"
    /\ \E n \in 1..MaxCatLeaves : \E tree \in TreesOver(1, n) : BuildCat(n, tree)

(***************************************************************************)
(* SerializeMap driven call by call, as the test compound::serialize_map   *)
(* does: serialize_map, then serialize_key and serialize_value calls in    *)
(* any order, each call's result kept, then end.                           *)
(***************************************************************************)
MapCalls ==
    {[op |-> "key", arg |-> [k |-> "str", cs |-> <<"a">>]],
     [op |-> "key", arg |-> [k |-> "str", cs |-> <<"b">>]],
     [op |-> "value", arg |-> [k |-> "int", w |-> "i16", n |-> 1]],
     [op |-> "value", arg |-> [k |-> "int", w |-> "i16", n |-> 2]]}

CallScripts == UNION {[1..n -> MapCalls] : n \in 0..MaxCalls}

\* the calls in turn; errs is what each returned
RECURSIVE RunCalls(_, _, _, _)
RunCalls(calls, i, s, errs) ==
    IF i > Len(calls) THEN [s |-> s, errs |-> errs]
    ELSE LET r == IF calls[i].op = "key" THEN serialize_key(calls[i].arg, s)
                  ELSE serialize_value(calls[i].arg, s)
         IN RunCalls(calls, i + 1, r.s, Append(errs, r.err))

EncodeMapCalls(calls) ==
    /\ pc = "new"
    /\ ~configured
    /\ \E s0 \in {serialize_map(Len(calls), SerState)} :
       \E run \in {RunCalls(calls, 1, s0.s, <<>>)} :
       \E fin \in {SerializeMap_end(run.s)} :
          /\ data' = fin.s.data
          /\ struct_sym' = fin.s.struct_sym
          /\ pending_key' = fin.s.pending_key
          /\ data_addr' = fin.addr
          /\ enc_err' = fin.err
          /\ input' = [ty |-> NoVal, val |-> NoVal, calls |-> calls, errs |-> run.errs]
    /\ pc' = "map_encoded"
    /\ UNCHANGED <<gather, optional_behavior, unit_struct_behavior, variant_name_behavior,
                   configured, value_stack, result>>

EncodeMapCallsAny == pc = "new" /\ \E calls \in CallScripts : EncodeMapCalls(calls)

\* the encoder is given any value of the bounded input set
EncodeAny == pc = "new" /\ \E inp \in Inputs : Encode(inp)

BuildAny ==
    /\ pc = "new"
    /\ \E n \in 0..MaxLeaves, start, end \in 0..MaxIndex, form \in Forms :
          \E listleaf \in 0..n, tree \in (IF n = 0 THEN {[leaf |-> 0]} ELSE TreesOver(1, n)) :
              Build(n, tree, listleaf, start, end, form)

ResolveAny == pc = "built" /\ \E max \in (1..MaxLeaves) \cup {USIZE_MAX} : Resolve(max)

DecodeAsAny == pc = "built" /\ \E wrap \in Wraps, arity \in 1..MaxLeaves : DecodeAs(wrap, arity)

Next ==
    \/ \E b \in OptionalBehavior : set_optional_behavior(b)
    \/ \E b \in StructBehavior : set_unit_struct_behavior(b)
    \/ \E b \in VariantNameBehavior : set_variant_name_behavior(b)
    \/ EncodeAny
    \/ Decode
    \/ BuildAny
    \/ ResolveAny
    \/ DecodeAsAny
    \/ NextElement
    \/ BuildSamples
    \/ ProbeAny
    \/ BuildEntriesAny
    \/ DecodeEntriesAny
    \/ BuildSliceAny
    \/ ResolveSliceAny
    \/ DecodeSliceAny
    \/ EncodeMapCallsAny
    \/ BuildCatAny
    \/ GatherStart
    \/ GatherStep
    \/ GatherReturn

Spec == Init /\ [][Next]_vars

\* gather_concat_items is sequential code: a started call keeps running
FairSpec == Spec /\ WF_<<gather, pc>>(GatherStep) /\ WF_<<gather, pc>>(GatherReturn)

(***************************************************************************)
(* Reading the store back as a tree (handles replaced by what they hold).  *)
(***************************************************************************)
RECURSIVE Tree(_, _)
Tree(dat, a) ==
    LET c == dat[a] IN
    CASE c.t \in {"Pair", "Concatenation", "Range", "Slice"} ->
            [t |-> c.t, l |-> Tree(dat, c.l), r |-> Tree(dat, c.r)]
      [] c.t = "List" ->
            [t |-> "List", items |-> [i \in 1..Len(c.items) |-> Tree(dat, c.items[i])],
             assoc |-> c.assoc]
      [] OTHER -> c

\* the session encoded a value (and maybe decoded it again)
Encoded == pc \in {"encoded", "decoded"} /\ input.val # NoVal

Decoded == pc = "decoded" /\ input.val # NoVal

RECURSIVE IsPlain(_)
IsPlain(ty) ==
    CASE ty.k \in {"bool", "int", "char", "string", "bytes", "unit"} -> TRUE
      [] ty.k \in {"seq", "map"} -> IsPlain(ty.of)
      [] ty.k = "tuple" -> \A i \in 1..Len(ty.tys) : IsPlain(ty.tys[i])
      [] OTHER -> FALSE

\* C1: decoding the handle returned by encoding a value built from booleans,
\* integers, chars, strings, byte buffers, unit, sequences, tuples and
\* string-keyed maps yields the same value, under every options combination.
C1_RoundTripPlain ==
    (Encoded /\ IsPlain(input.ty)) =>
        /\ enc_err = "none"
        /\ pc = "decoded" => (result.st = "ok" /\ result.val = Canon(input.val))

C1_Witness ==
    /\ Decoded
    /\ input.ty = TSeq(TSeq(TInt("u16")))
    /\ Len(input.val.xs) = 2 /\ Len(input.val.xs[1].xs) = 2
    /\ optional_behavior = "UnitValue" /\ unit_struct_behavior = "IncludeTyping"
    /\ variant_name_behavior = "Index"
    /\ result.st = "ok"

(***************************************************************************)
(* Reference results for the stores built by hand.                         *)
(***************************************************************************)
RECURSIVE Flatten(_)
Flatten(tree) == IF IsLeaf(tree) THEN <<tree.leaf>> ELSE Flatten(tree.l) \o Flatten(tree.r)

\* the leaf handles of the built tree, left to right
TreeLeaves == [i \in 1..Len(Flatten(input.tree)) |-> input.leaves[Flatten(input.tree)[i]]]

InRange == 0 <= input.start /\ input.start <= input.end /\ input.end < input.n

\* the items the built root stands for
ExpectedItems ==
    CASE input.form \in {"list", "concat"} -> input.leaves
      [] input.form = "scalar" -> <<data_addr>>
      [] OTHER -> IF input.end < input.start THEN <<>>
                  ELSE SubSeq(input.leaves, input.start + 1, Min(input.end + 1, input.n))

Resolved == pc = "resolved" /\ input.max = USIZE_MAX

\* C2: gather_concat_items returns exactly the non-Concatenation leaves of the
\* tree, left to right, each once, however the tree is associated; a leaf that
\* is a List counts as one item.
C2_ConcatLeavesInOrder ==
    (Resolved /\ input.form = "concat") =>
        /\ result.st = "ok"
        /\ Reverse(result.val) = TreeLeaves
        /\ Reverse(result.val) = input.leaves

C2_Witness ==
    /\ Resolved /\ input.form = "concat" /\ input.n = 3 /\ input.listleaf = 1
    /\ input.tree = [l |-> [leaf |-> 1], r |-> [l |-> [leaf |-> 2], r |-> [leaf |-> 3]]]
    /\ Len(result.val) = 3

\* C3: a Slice over a List or Concatenation with items s and bounds
\* 0 <= start <= end < n resolves to s[start..end] inclusive; end < start gives
\* no items; slicing the List and the Concatenation of the same leaves agree.
C3_SliceInclusive ==
    (Resolved /\ input.form \in {"slice_list", "slice_concat"}) =>
        /\ InRange =>
              /\ result.st = "ok"
              /\ Len(result.val) = input.end - input.start + 1
              /\ Reverse(result.val) = SubSeq(input.leaves, input.start + 1, input.end + 1)
        /\ input.end < input.start => (result.st = "ok" /\ result.val = <<>>)
        /\ input.n >= 2 =>
              LET other == IF input.form = "slice_list" THEN input.slice_cat
                           ELSE input.slice_list
                  r == ListAccessor_new_with_max(
                           GarnishDataDeserializer_new_for_value(data, other), USIZE_MAX)
              IN r.st = result.st /\ r.val = result.val

C3_Witness ==
    /\ Resolved /\ input.form = "slice_concat" /\ input.n = 3
    /\ input.start = 1 /\ input.end = 2
    /\ Len(result.val) = 2

\* C4: decoding as a tuple, tuple struct or tuple variant of arity n fails when
\* the number m of resolved items differs from n and succeeds positionally when
\* m = n; m counts the resolved items, not the Slice's source.
C4_TupleArity ==
    (pc = "decoded" /\ input.val = NoVal /\ input.listleaf = 0
        /\ input.wrap \in {"tuple", "tuple_struct", "tuple_variant"}) =>
        LET m == Len(ExpectedItems)
            arity == input.max
        IN /\ m # arity => result.st = "err"
           /\ m = arity =>
                 /\ result.st = "ok"
                 /\ result.val.xs = [i \in 1..m |->
                        [k |-> "int", w |-> "i16", n |-> data[ExpectedItems[i]].n]]

C4_Witness ==
    /\ pc = "decoded" /\ input.val = NoVal /\ input.listleaf = 0
    /\ input.wrap = "tuple_variant" /\ input.form = "slice_list"
    /\ input.n = 3 /\ input.start = 1 /\ input.end = 2 /\ input.max = 2
    /\ result.st = "ok"

(***************************************************************************)
(* Reference encodings.                                                    *)
(***************************************************************************)
SerState0 == [data |-> <<>>, lists |-> <<>>, chars |-> <<>>, bytes |-> <<>>,
              struct_sym |-> NoAddr, pending_key |-> NoAddr]

\* what encoding x on its own puts in the store
TreeOfAlone(x) == LET r == Serialize(x, SerState0) IN Tree(r.s.data, r.addr)

SymbolTree(cs) == [t |-> "Symbol", cs |-> cs]

PairTree(l, r) == [t |-> "Pair", l |-> l, r |-> r]

\* C5: under the unit-value policy None encodes to Unit and Some(x) to the
\* handle of encode(x) with no wrapper; under the pair policy None encodes to
\* Pair(Symbol("none"), Unit) and Some(x) to Pair(Symbol("some"), encode(x)).
C5_OptionalEncoding ==
    (Encoded /\ input.ty.k = "option") =>
        /\ enc_err = "none"
        /\ (optional_behavior = "UnitValue" /\ input.val.k = "none") =>
              Tree(data, data_addr) = [t |-> "Unit"]
        /\ (optional_behavior = "UnitValue" /\ input.val.k = "some") =>
              Tree(data, data_addr) = TreeOfAlone(input.val.x)
        /\ (optional_behavior = "Pair" /\ input.val.k = "none") =>
              Tree(data, data_addr) = PairTree(SymbolTree(StrNone), [t |-> "Unit"])
        /\ (optional_behavior = "Pair" /\ input.val.k = "some") =>
              Tree(data, data_addr) = PairTree(SymbolTree(StrSome), TreeOfAlone(input.val.x))

C5_Witness ==
    /\ Encoded /\ input.ty = TOption(TOption(TInt("u16")))
    /\ input.val.k = "some" /\ input.val.x.k = "none"
    /\ optional_behavior = "Pair"
    /\ data[data_addr].t = "Pair"

\* C6: a codec constructed without explicit configuration uses optional =
\* unit-value, type-tagging = excluded, variant naming = full; an encoder from
\* new() with no setter call encodes None as Unit and Some(100) as Number(100).
C6_DefaultsClaim ==
    (Encoded /\ ~configured /\ input.ty = TOption(TInt("i16"))) =>
        /\ optional_behavior = GarnishSerializationOptions_new.optional_behavior
        /\ unit_struct_behavior = GarnishSerializationOptions_new.struct_typing_behavior
        /\ variant_name_behavior = GarnishSerializationOptions_new.variant_name_behavior
        /\ input.val.k = "none" => Tree(data, data_addr) = [t |-> "Unit"]
        /\ input.val = [k |-> "some", x |-> [k |-> "int", w |-> "i16", n |-> 100]] =>
              Tree(data, data_addr) = [t |-> "Number", n |-> 100]

\* C7: under the unit-value policy decode(encode(o)) = o for every optional
\* value o, including payloads that themselves encode to Unit.
C7_UnitValueRoundTrip ==
    (Decoded /\ optional_behavior = "UnitValue" /\ input.ty.k = "option") =>
        (result.st = "ok" /\ result.val = Canon(input.val))

\* C8: under the symbol-tagged pair policy decode(encode(o)) = o for every
\* optional value o.
C8_PairRoundTrip ==
    (Decoded /\ optional_behavior = "Pair" /\ input.ty.k = "option") =>
        (result.st = "ok" /\ result.val = Canon(input.val))

\* the encoding of a value of booleans, integers, sequences and structs that
\* the specification describes
RECURSIVE RefTree(_)
RefTree(v) ==
    CASE v.k = "bool" -> [t |-> IF v.b THEN "True" ELSE "False"]
      [] v.k = "int" -> [t |-> "Number", n |-> v.n]
      [] v.k = "seq" ->
            [t |-> "List", items |-> [i \in 1..Len(v.xs) |-> RefTree(v.xs[i])],
             assoc |-> [i \in 1..Len(v.xs) |-> FALSE]]
      [] v.k = "struct" ->
            LET fields == [i \in 1..Len(v.fs) |->
                              PairTree(SymbolTree(v.fs[i].fname), RefTree(v.fs[i].val))]
                items == IF unit_struct_behavior = "IncludeTyping"
                         THEN Append(fields, PairTree(SymbolTree(data_name_meta_key),
                                                      SymbolTree(v.name)))
                         ELSE fields
            IN [t |-> "List", items |-> items, assoc |-> [i \in 1..Len(items) |-> TRUE]]

\* C9: with type-tagging a struct encodes to its field entries in order plus
\* one trailing Pair(metadata-symbol, Symbol(its own type name)), for every
\* struct of a nested value; without type-tagging to exactly the field entries.
C9_StructEncoding ==
    (Encoded /\ input.ty \in {TInner, TOuter, TSeq(TInner),
                              TStruct(NameSecs, <<Field(<<"s">>, TSeq(TInt("u16")))>>)}) =>
        /\ enc_err = "none"
        /\ Tree(data, data_addr) = RefTree(input.val)

\* C10: with type-tagging, decoding an encoded struct or tuple struct ignores
\* the trailing metadata entry and returns the original value.
C10_TaggedStructRoundTrip ==
    (Decoded /\ unit_struct_behavior = "IncludeTyping"
        /\ input.ty.k \in {"struct", "tuple_struct"}) =>
        (result.st = "ok" /\ result.val = Canon(input.val))

(***************************************************************************)
(* Reference encodings of enum variants.                                   *)
(***************************************************************************)
\* the discriminant of a variant value under the naming policy
DiscTree(v) ==
    CASE variant_name_behavior = "Full" -> SymbolTree(v.name \o <<":", ":">> \o v.variant)
      [] variant_name_behavior = "Short" -> SymbolTree(v.variant)
      [] variant_name_behavior = "Index" -> [t |-> "Number", n |-> v.idx]

\* the field entries of a tuple or struct variant
FieldEntries(v) ==
    IF v.k = "tuple_variant"
    THEN [i \in 1..Len(v.xs) |-> TreeOfAlone(v.xs[i])]
    ELSE [i \in 1..Len(v.fs) |->
             PairTree(SymbolTree(v.fs[i].fname), TreeOfAlone(v.fs[i].val))]

\* the payload of a variant that carries data
PayloadTree(v) ==
    CASE v.k = "newtype_variant" -> TreeOfAlone(v.x)
      [] v.k = "tuple_variant" ->
            [t |-> "List", items |-> FieldEntries(v),
             assoc |-> [i \in 1..Len(v.xs) |-> FALSE]]
      [] v.k = "struct_variant" ->
            [t |-> "List", items |-> FieldEntries(v),
             assoc |-> [i \in 1..Len(v.fs) |-> TRUE]]

\* C11: a unit variant encodes as just its discriminant: Symbol("Enum::Variant")
\* under full naming, Symbol("Variant") under short, Number(ordinal) under
\* index; no List or Pair is created.
C11_UnitVariantEncoding ==
    (Encoded /\ input.val.k = "unit_variant") =>
        /\ enc_err = "none"
        /\ Tree(data, data_addr) = DiscTree(input.val)
        /\ \A a \in 1..Len(data) : data[a].t \notin {"List", "Pair"}

C11_Witness ==
    /\ Encoded /\ input.val.k = "unit_variant"
    /\ variant_name_behavior = "Index"
    /\ data[data_addr] = [t |-> "Number", n |-> 0]

\* C12: a newtype, tuple or struct variant encodes as a 2-element List
\* [discriminant, payload]; the discriminant's associative flag is false under
\* index naming and true otherwise; the payload is the encoded value, the
\* element List or the field List.
C12_DataVariantTwoElementList ==
    (Encoded /\ input.val.k \in {"newtype_variant", "tuple_variant", "struct_variant"}) =>
        /\ enc_err = "none"
        /\ LET tr == Tree(data, data_addr)
           IN /\ tr.t = "List"
              /\ Len(tr.items) = 2
              /\ tr.items[1] = DiscTree(input.val)
              /\ tr.assoc[1] = (variant_name_behavior # "Index")
              /\ tr.items[2] = PayloadTree(input.val)

C14_VariantFieldList ==
    (Encoded /\ input.val.k \in {"tuple_variant", "struct_variant"}) =>
        /\ enc_err = "none"
        /\ LET tr == Tree(data, data_addr)
           IN /\ tr.t = "List"
              /\ tr.items =
                    IF unit_struct_behavior = "IncludeTyping"
                    THEN Append(FieldEntries(input.val),
                                PairTree(SymbolTree(data_name_meta_key),
                                         DiscTree(input.val)))
                    ELSE FieldEntries(input.val)

\* C17: for every enum value and every variant naming policy, decoding the
\* handle the encoder produced yields the same variant with the same payload.
C17_EnumRoundTrip ==
    (Decoded /\ input.ty.k = "enum") =>
        (result.st = "ok" /\ result.val = Canon(input.val))

(***************************************************************************)
(* Decoding sample handles.                                                *)
(***************************************************************************)
Probed == pc = "probed"

\* the store before the probe, and the probed cell
SampleData == SampleCells

FocusCell == SampleCells[input.focus]

SepAt(cs, i) == i < Len(cs) /\ cs[i] = ":" /\ cs[i + 1] = ":"

HasSep(cs) == \E i \in 1..Len(cs) : SepAt(cs, i)

FirstSep(cs) == CHOOSE i \in 1..Len(cs) : SepAt(cs, i) /\ \A j \in 1..(i - 1) : ~SepAt(cs, j)

\* the segment of a discriminant's text that follows its first "::"
AfterSep(cs) ==
    LET rest == SubSeq(cs, FirstSep(cs) + 2, Len(cs))
    IN IF HasSep(rest) THEN SubSeq(rest, 1, FirstSep(rest) - 1) ELSE rest

UnitVariantU == [k |-> "unit_variant", name |-> NameEnum, idx |-> 0,
                 variant |-> NameUnitVariant]

VariantOf(i, sub) ==
    LET v == TEnum.variants[i]
        head == [name |-> NameEnum, idx |-> i - 1, variant |-> v.vname]
    IN CASE v.vk = "unit" -> [k |-> "unit_variant"] @@ head
         [] v.vk = "newtype" -> [k |-> "newtype_variant", x |-> sub] @@ head
         [] v.vk = "tuple" -> [k |-> "tuple_variant", xs |-> sub.xs] @@ head
         [] v.vk = "struct" -> [k |-> "struct_variant", fs |-> sub.fs] @@ head

\* C16: a List focus decodes element 0 as the discriminant (variant name =
\* text after "::") and element 1 as the payload, decoded as the contained
\* value (newtype), through the tuple path with its arity check (tuple) or
\* through the struct path (struct).
C16_EnumFromList ==
    (Probed /\ input.ty = TEnum /\ FocusCell.t = "List" /\ Len(FocusCell.items) >= 2) =>
        LET disc == SampleCells[FocusCell.items[1]]
            payload == FocusCell.items[2]
            i == VariantIndex(TEnum.variants, AfterSep(disc.cs))
        IN (disc.t = "Symbol" /\ HasSep(disc.cs) /\ i # 0) =>
              /\ TEnum.variants[i].vk = "unit" =>
                    (result.st = "ok" /\ result.val = VariantOf(i, NoVal))
              /\ TEnum.variants[i].vk # "unit" =>
                    LET sub == Deserialize(TEnum.variants[i].ty,
                                   GarnishDataDeserializer_new_for_value(SampleData, payload))
                    IN /\ result.st = sub.st
                       /\ sub.st = "ok" => result.val = VariantOf(i, sub.val)
              /\ input.focus = 25 =>
                    result.val = VariantOf(2, [k |-> "int", w |-> "u16", n |-> 7])
              /\ input.focus = 26 =>
                    result.val = VariantOf(3, [xs |-> <<[k |-> "int", w |-> "i16", n |-> 7],
                                                        [k |-> "bool", b |-> TRUE]>>])
              /\ input.focus = 27 => result.st = "err"
              /\ input.focus = 28 =>
                    result.val = VariantOf(4,
                        [fs |-> <<[fname |-> <<"a">>, val |-> [k |-> "int", w |-> "u16", n |-> 7]],
                                  [fname |-> <<"b">>, val |-> [k |-> "bool", b |-> TRUE]]>>])

C16_Witness ==
    /\ Probed /\ input.ty = TEnum /\ input.focus = 28
    /\ result.st = "ok" /\ result.val.k = "struct_variant"
    /\ Len(value_stack) = 2

Accepted(ty) ==
    CASE ty.k = "bool" -> {"True", "False"}
      [] ty.k = "int" -> {"Number"}
      [] ty.k = "char" -> {"Char"}
      [] ty.k \in {"unit", "unit_struct"} -> {"Unit"}
      [] ty.k = "bytes" -> {"ByteList"}
      [] ty.k \in {"string", "identifier"} -> {"CharList", "Symbol", "Concatenation", "Slice"}

ExpectedMessage(ty) ==
    CASE ty.k = "bool" -> "Expected True or False"
      [] ty.k = "int" -> "Expected Number"
      [] ty.k = "char" -> "Expected Char"
      [] ty.k \in {"unit", "unit_struct"} -> "Expected Unit"
      [] ty.k = "bytes" -> "Expected ByteList"
      [] ty.k \in {"string", "identifier"} ->
            "Expected CharList, Symbol, Concatenation or Slice."

EntriesDecoded == pc = "entries_decoded"

EntryAt(i) == Entries[input.order[i]]

\* the first two entries before the intruder carry the same key
DuplicateBefore(p) == \E i, j \in 1..(p - 1) : i < j /\ EntryAt(i).key = EntryAt(j).key

\* a map built by inserting the entries in order: the last value of a key stays
InsertedInOrder ==
    {[key |-> [k |-> "str", cs |-> EntryAt(i).key],
      val |-> [k |-> "int", w |-> "i16", n |-> EntryAt(i).val]] :
        i \in {i \in 1..3 : \A j \in (i + 1)..3 : EntryAt(j).key # EntryAt(i).key}}

SomeStructValue ==
    [k |-> "struct", name |-> NameSome,
     fs |-> <<[fname |-> KeyOne, val |-> [k |-> "int", w |-> "i16", n |-> 100]],
              [fname |-> KeyTwo, val |-> [k |-> "int", w |-> "i16", n |-> 200]],
              [fname |-> KeyThree, val |-> [k |-> "int", w |-> "i16", n |-> 300]]>>]

\* C19: decoding as a map or struct fails as soon as a resolved item that is
\* not a Pair is reached; when every item is a Pair each key and value is
\* decoded from that Pair's own first and second handle, in resolved order.
C19_EntriesArePairs ==
    EntriesDecoded =>
        /\ (input.intruder # 0 /\ input.ty.k = "map") =>
              (result.st = "err" /\ result.msg = "store: not a pair")
        /\ (input.intruder # 0 /\ input.ty.k = "struct") =>
              /\ result.st = "err"
              /\ result.msg = IF DuplicateBefore(input.intruder) THEN "duplicate field"
                              ELSE "store: not a pair"
        /\ (input.intruder = 0 /\ input.ty.k = "map") =>
              (result.st = "ok" /\ result.val = [k |-> "map", ms |-> InsertedInOrder])
        /\ (input.intruder = 0 /\ input.ty.k = "struct"
                /\ {input.order[i] : i \in 1..3} = {1, 2, 3}) =>
              (result.st = "ok" /\ result.val = SomeStructValue)

C19_Witness ==
    /\ EntriesDecoded /\ input.ty.k = "map" /\ input.intruder = 3
    /\ input.form = "slice_list" /\ input.order = <<1, 4, 2>>
    /\ result.st = "err"

\* C20: struct decoding matches fields by name: every permutation of the
\* field Pairs in the source List, Concatenation or Slice decodes to the
\* same struct value.
C20_FieldsByName ==
    (EntriesDecoded /\ input.ty = TSome /\ input.intruder = 0
        /\ {input.order[i] : i \in 1..3} = {1, 2, 3}) =>
        (result.st = "ok" /\ result.val = SomeStructValue)

C20_Witness ==
    /\ EntriesDecoded /\ input.ty = TSome /\ input.intruder = 0
    /\ input.order = <<3, 1, 2>> /\ input.form = "slice_concat"
    /\ result.st = "ok"

(***************************************************************************)
(* Slices over any source and any bounds.                                  *)
(***************************************************************************)
SliceDone == pc \in {"slice_resolved", "slice_decoded"}

SliceSourceTag == SliceCells(input.src, input.start, input.end)[input.src].t

\* C21: resolving a Slice for sequence, tuple, map or struct decoding fails
\* with the descriptive message whenever the Slice's source is neither a List
\* nor a Concatenation, for every value of the range bounds.
C21_SliceSourceTag ==
    (SliceDone /\ SliceSourceTag \notin {"List", "Concatenation"}) =>
        /\ result.st = "err"
        /\ result.msg = "Slice cannot be converted to sequence."

C21_Witness ==
    /\ pc = "slice_decoded" /\ input.ty = TSome
    /\ input.src = 14 /\ input.start = 1 /\ input.end = 0
    /\ result.st = "err"

\* the flattened items of the List (4) and of the Concatenation (6)
SliceSourceItems == <<1, 2, 3>>

SliceOfItems == SliceDone /\ SliceSourceTag \in {"List", "Concatenation"}

\* C27: slice resolution with start <= end never fails and never overflows
\* because of the bound values: over n flattened items it yields the items
\* at indices start..min(end, n-1) in order, for every pair of bounds
\* representable as an index, the largest index value included.
C27_SliceBoundsNeverOverflow ==
    (pc = "slice_resolved" /\ SliceOfItems /\ input.start <= input.end) =>
        /\ result.st = "ok"
        /\ Reverse(result.val) =
               SubSeq(SliceSourceItems, input.start + 1,
                      Min(input.end + 1, Len(SliceSourceItems)))

\* the same statement for the bounds whose count fits the index type
SliceWithinIndexRange ==
    (pc = "slice_resolved" /\ SliceOfItems /\ input.start <= input.end
        /\ input.end - input.start + 1 <= USIZE_MAX) =>
        /\ result.st = "ok"
        /\ Reverse(result.val) =
               SubSeq(SliceSourceItems, input.start + 1,
                      Min(input.end + 1, Len(SliceSourceItems)))

(***************************************************************************)
(* A focus that is no List, Concatenation or Slice, decoded as a sequence. *)
(***************************************************************************)
\* the element shape of a sequence or tuple shape
ElemOf(ty) == IF ty.k = "seq" THEN ty.of ELSE ty.tys[1]

\* C22: when the focal tag is none of List, Concatenation or Slice, list
\* resolution yields the one-element sequence holding the focal handle: the
\* value decodes as a 1-item sequence and as a 1-tuple, and is rejected as a
\* tuple of any other arity.
C22_ScalarAsSingleItem ==
    /\ (Resolved /\ input.form = "scalar" /\ input.listleaf = 0) =>
          (result.st = "ok" /\ result.val = <<data_addr>>)
    /\ (Probed /\ input.ty \in ListLikeShapes
            /\ FocusCell.t \notin {"List", "Concatenation", "Slice"}) =>
          LET sub == Deserialize(ElemOf(input.ty),
                         GarnishDataDeserializer_new_for_value(SampleData, input.focus))
          IN /\ input.ty.k = "seq" =>
                   /\ result.st = sub.st
                   /\ sub.st = "ok" => result.val = [k |-> "seq", xs |-> <<sub.val>>]
             /\ (input.ty.k = "tuple" /\ Len(input.ty.tys) = 1) =>
                   /\ result.st = sub.st
                   /\ sub.st = "ok" => result.val = [k |-> "tuple", xs |-> <<sub.val>>]
             /\ (input.ty.k = "tuple" /\ Len(input.ty.tys) # 1) => result.st = "err"
             /\ (input.focus = 4 /\ input.ty = TSeq(TInt("i16"))) =>
                   result.val = [k |-> "seq", xs |-> <<[k |-> "int", w |-> "i16", n |-> 7]>>]

C22_Witness ==
    /\ Probed /\ input.ty = TTuple(<<TChar>>) /\ input.focus = 5
    /\ result.st = "ok" /\ result.val.xs = <<[k |-> "char", c |-> "a"]>>

(***************************************************************************)
(* What a decode does to the store.                                        *)
(***************************************************************************)
DecodeDone == Probed \/ EntriesDecoded \/ SliceDone \/ Decoded

\* the store the decoder was given
PreStore ==
    CASE Probed -> SampleData
      [] EntriesDecoded -> EntryCells(input.order, input.intruder)
      [] SliceDone -> SliceCells(input.src, input.start, input.end)
      [] Decoded -> Serialize(input.val, SerState0).s.data

\* shapes whose decode reads no string, key or discriminant
RECURSIVE ReadOnlyShape(_)
ReadOnlyShape(ty) ==
    CASE ty = NoVal -> TRUE
      [] ty.k \in {"bool", "int", "char", "unit", "unit_struct", "bytes"} -> TRUE
      [] ty.k \in {"option", "seq", "newtype_struct"} -> ReadOnlyShape(ty.of)
      [] ty.k \in {"tuple", "tuple_struct"} ->
            \A i \in 1..Len(ty.tys) : ReadOnlyShape(ty.tys[i])
      [] OTHER -> FALSE

RECURSIVE HasEnum(_)
HasEnum(ty) ==
    CASE ty = NoVal -> FALSE
      [] ty.k = "enum" -> TRUE
      [] ty.k \in {"option", "seq", "newtype_struct", "map"} -> HasEnum(ty.of)
      [] ty.k \in {"tuple", "tuple_struct"} -> \E i \in 1..Len(ty.tys) : HasEnum(ty.tys[i])
      [] ty.k = "struct" -> \E i \in 1..Len(ty.fields) : HasEnum(ty.fields[i].ty)
      [] OTHER -> FALSE

\* handle a is element 0 of a List of at least two elements
IsDiscriminantOfList(a) ==
    \E l \in 1..Len(PreStore) :
        /\ PreStore[l].t = "List" /\ Len(PreStore[l].items) >= 2
        /\ PreStore[l].items[1] = a

\* cell j is a CharList realized from handle a
RealizedFrom(j, a) == data[j].t = "CharList" /\ data[j].cs = Realize(data, a)

StoreExtended ==
    /\ Len(data) >= Len(PreStore)
    /\ SubSeq(data, 1, Len(PreStore)) = PreStore

\* the listed decodes leave the store as it was
ReadOnlyDecodes ==
    /\ ReadOnlyShape(input.ty) => data = PreStore
    /\ (Probed /\ input.ty \in {TString, TIdentifier} /\ FocusCell.t = "CharList") =>
          data = PreStore
    /\ (Decoded /\ input.ty = TString) => data = PreStore

\* C23 as stated: the decoder mutates the store only by materializing a
\* Symbol, Concatenation or Slice into a CharList; decoding booleans, numbers,
\* chars, unit, byte buffers, strings from a CharList, optionals, and the
\* resolution for sequences and tuples leave the store unchanged.
C23_OnlySymbolConcatSlice ==
    DecodeDone =>
        /\ StoreExtended
        /\ \A j \in (Len(PreStore) + 1)..Len(data) :
              \E a \in 1..(j - 1) :
                  /\ RealizedFrom(j, a)
                  /\ data[a].t \in {"Symbol", "Concatenation", "Slice"} \/ a > Len(PreStore)
        /\ ReadOnlyDecodes

\* what the decoder does: it only appends CharLists, each the realization of
\* a Symbol, Concatenation or Slice, of a CharList it has just appended, or
\* of element 0 of a List decoded as an enum, whatever that element's tag
OnlyAppendsCharLists ==
    DecodeDone =>
        /\ StoreExtended
        /\ \A j \in (Len(PreStore) + 1)..Len(data) :
              \E a \in 1..(j - 1) :
                  /\ RealizedFrom(j, a)
                  /\ \/ data[a].t \in {"Symbol", "Concatenation", "Slice"}
                     \/ a > Len(PreStore)
                     \/ HasEnum(input.ty) /\ IsDiscriminantOfList(a)
        /\ ReadOnlyDecodes

(***************************************************************************)
(* The flattening loop.                                                    *)
(***************************************************************************)
\* the handles of the nodes of the tree under handle a, root first
RECURSIVE NodesUnder(_)
NodesUnder(a) ==
    IF data[a].t = "Concatenation"
    THEN {a} \cup NodesUnder(data[a].l) \cup NodesUnder(data[a].r)
    ELSE {a}

Range(s) == {s[i] : i \in 1..Len(s)}

Gathering == pc \in {"gathering", "gathered"}

\* every handle enters and leaves the stack at most once, and the stack holds
\* exactly the handles that have entered and not left
GatherOnce ==
    /\ Injective(gather.pushed) /\ Injective(gather.popped)
    /\ Range(gather.popped) \subseteq Range(gather.pushed)
    /\ Range(gather.pushed) \subseteq NodesUnder(data_addr)
    /\ Range(gather.cat_stack) = Range(gather.pushed) \ Range(gather.popped)

GatherExit ==
    /\ gather.cat_stack = <<>>
    /\ Range(gather.pushed) = NodesUnder(data_addr)
    /\ Range(gather.popped) = NodesUnder(data_addr)
    /\ Len(gather.popped) = 2 * input.n - 1
    /\ Len(result.val) = input.n
    /\ result.val = input.leaves
    /\ result.val = gather_concat_items(data_addr, data)

\* C24: gather_concat_items terminates on every finite Concatenation tree,
\* left-skewed, right-skewed or balanced: each iteration pops one node, each
\* node is pushed and popped exactly once, and the loop exits with an empty
\* stack and as many items as the tree has leaves.
C24_GatherTerminates ==
    /\ [](Gathering => GatherOnce)
    /\ [](pc = "gathered" => GatherExit)
    /\ [][(pc = "gathering" /\ pc' = "gathering") =>
              Len(gather'.popped) = Len(gather.popped) + 1]_<<gather, pc>>
    /\ (pc = "gathering") ~> (pc = "gathered")

C24_Witness ==
    /\ pc = "gathered" /\ input.n = 4
    /\ input.tree = [l |-> [l |-> [leaf |-> 1], r |-> [leaf |-> 2]],
                     r |-> [l |-> [leaf |-> 3], r |-> [leaf |-> 4]]]
    /\ Len(result.val) = 4 /\ Len(gather.popped) = 7

(***************************************************************************)
(* The focus stack after a decode.                                         *)
(***************************************************************************)
BuiltDecoded == pc = "decoded" /\ input.val = NoVal

\* the handle the decoder was constructed for
SeedHandle ==
    CASE Probed -> input.focus
      [] BuiltDecoded /\ input.wrap = "tuple_variant" -> input.enum
      [] OTHER -> data_addr

AnyDecodeDone == Probed \/ EntriesDecoded \/ pc = "slice_decoded" \/ pc = "decoded"

\* C25: every decode that returns successfully leaves the focus stack as it
\* was on entry, for every requested shape, enum variants decoded from a List
\* included: after a top-level decode the stack holds only the seed handle.
C25_FocusStackRestored ==
    (AnyDecodeDone /\ result.st = "ok") => value_stack = <<SeedHandle>>

\* the same for every shape without an enum, and for enums read from a Symbol
FocusStackRestoredOutsideListEnums ==
    (AnyDecodeDone /\ result.st = "ok"
        /\ (HasEnum(input.ty) => (Probed /\ FocusCell.t = "Symbol"))) =>
        value_stack = <<SeedHandle>>

\* C26: when the decode of a sequence element, a map key or a map value
\* fails, the focus stack is as it was before that element or entry was
\* entered when the error is returned: no handle pushed for it remains.
C26_FocusStackRestoredOnError ==
    (AnyDecodeDone /\ result.st = "err"
        /\ (ReadOnlyShape(input.ty) \/ input.ty = TMap(TInt("i16")))) =>
        value_stack = <<SeedHandle>>

\* the same when no map or struct is decoded (elements), and when the failure
\* is a map value's (sample List 39: the key "b" decodes, the Char does not)
FocusStackRestoredOnElementOrValueError ==
    /\ (AnyDecodeDone /\ result.st = "err" /\ ReadOnlyShape(input.ty)) =>
          value_stack = <<SeedHandle>>
    /\ (Probed /\ input.ty = TMap(TInt("i16")) /\ input.focus = 39) =>
          (result.st = "err" /\ result.msg = "Expected Number"
              /\ value_stack = <<SeedHandle>>)

(***************************************************************************)
(* Keys and values of a map given call by call.                            *)
(***************************************************************************)
NoKeyMessage == "No key when serializing value for map."

\* what the calls should give when every value needs a key of its own:
\* fresh is the key set since the last value (<<>> when there is none)
RECURSIVE FreshKeyRun(_, _, _, _, _)
FreshKeyRun(calls, i, fresh, pairs, errs) ==
    IF i > Len(calls) THEN [pairs |-> pairs, errs |-> errs]
    ELSE IF calls[i].op = "key"
    THEN FreshKeyRun(calls, i + 1, calls[i].arg.cs, pairs, Append(errs, "none"))
    ELSE IF fresh = <<>>
    THEN FreshKeyRun(calls, i + 1, fresh, pairs, Append(errs, NoKeyMessage))
    ELSE FreshKeyRun(calls, i + 1, <<>>,
             Append(pairs, PairTree(SymbolTree(fresh),
                                    [t |-> "Number", n |-> calls[i].arg.n])),
             Append(errs, "none"))

MapEncoded == pc = "map_encoded"

\* C28: every Pair appended to the map's List uses the key given by the
\* serialize_key call made since the previous serialize_value; a
\* serialize_value with no such fresh key (none ever set, or already consumed)
\* fails with the "No key" message and appends nothing.
C28_FreshKeyPerValue ==
    MapEncoded =>
        LET want == FreshKeyRun(input.calls, 1, <<>>, <<>>, <<>>)
        IN /\ enc_err = "none"
           /\ input.errs = want.errs
           /\ Tree(data, data_addr).items = want.pairs

\* the part that holds: as long as no key has been set, serialize_value fails
\* with the message and appends nothing; every value after a key of its own
\* is paired with that key
MapValuesWithOwnKeys ==
    (MapEncoded /\ \A i \in 1..Len(input.calls) :
                      (input.calls[i].op = "value" /\ i > 1) => input.calls[i - 1].op = "key") =>
        LET want == FreshKeyRun(input.calls, 1, <<>>, <<>>, <<>>)
        IN /\ enc_err = "none"
           /\ input.errs = want.errs
           /\ Tree(data, data_addr).items = want.pairs

(***************************************************************************)
(* Discriminants with several separators.                                  *)
(***************************************************************************)
\* the number of "::" in cs, read left to right without overlap
RECURSIVE SepCountFrom(_, _)
SepCountFrom(cs, i) ==
    IF i >= Len(cs) THEN 0
    ELSE IF SepAt(cs, i) THEN 1 + SepCountFrom(cs, i + 2)
    ELSE SepCountFrom(cs, i + 1)

SepCount(cs) == SepCountFrom(cs, 1)

\* C29: of a discriminant with more than one "::" exactly the second segment
\* is passed to the variant identifier; the first segment is discarded
\* whatever it holds, the empty string included, and the segments after the
\* second are ignored without an error.
C29_SecondSegmentOnly ==
    (Probed /\ input.ty = TEnum /\ FocusCell.t = "Symbol"
        /\ (SepCount(FocusCell.cs) >= 2 \/ (HasSep(FocusCell.cs) /\ FirstSep(FocusCell.cs) = 1))) =>
        LET i == VariantIndex(TEnum.variants, AfterSep(FocusCell.cs))
        IN /\ i = 0 => (result.st = "err" /\ result.msg = "unknown variant")
           /\ (i # 0 /\ TEnum.variants[i].vk = "unit") =>
                 (result.st = "ok" /\ result.val = VariantOf(i, NoVal))
           /\ input.focus \in {32, 33, 34} => (result.st = "ok" /\ result.val = UnitVariantU)
           /\ input.focus = 35 => result.st = "err"

C29_Witness ==
    /\ Probed /\ input.ty = TEnum
    /\ FocusCell = [t |-> "Symbol", cs |-> <<"X", ":", ":", "U", ":", ":", "N">>]
    /\ result.st = "ok" /\ result.val.variant = NameUnitVariant

(***************************************************************************)
(* The accessor, call by call.                                             *)
(***************************************************************************)
Iterating == pc = "iterating"

\* what asking for an i16 at handle a gives
ElementAt(a) ==
    IF data[a].t = "Number"
    THEN [some |-> TRUE, st |-> "ok", val |-> [k |-> "int", w |-> "i16", n |-> data[a].n],
          msg |-> "none"]
    ELSE [some |-> TRUE, st |-> "err", val |-> NoVal, msg |-> "Expected Number"]

\* (a built "scalar" root that is the List leaf is a List: ExpectedItems does
\* not describe it)
\* C30: the accessor delivers the resolved items in resolved order, each
\* once, each decoded with itself as the focus; once they are exhausted every
\* further next_element_seed returns None and leaves the focus stack as it is.
C30_ItemsInOrderOnce ==
    (Iterating /\ (input.form = "scalar" => input.listleaf = 0)) =>
        LET k == Len(input.delivered)
            m == Len(ExpectedItems)
        IN /\ \A i \in 1..k :
                 IF i <= m THEN input.delivered[i] = ElementAt(ExpectedItems[i])
                 ELSE input.delivered[i] =
                          [some |-> FALSE, st |-> "ok", val |-> NoVal, msg |-> "none"]
           /\ result.val = Reverse(SubSeq(ExpectedItems, Min(k, m) + 1, m))
           /\ value_stack = <<data_addr>>
           /\ input.nones = IF k > m THEN k - m ELSE 0

C30_Witness ==
    /\ Iterating /\ input.form = "slice_concat" /\ input.n = 3
    /\ input.start = 1 /\ input.end = 2 /\ input.listleaf = 0
    /\ Len(input.delivered) = 4 /\ input.nones = 2
    /\ input.delivered[2].val = [k |-> "int", w |-> "i16", n |-> 300]

====
